---- MODULE Spec2Model ----
(***************************************************************************)
(* The text-classification core of the ocean-hazard tweet analyser:        *)
(* keyword matching, hazard categorisation, sentiment scoring with its     *)
(* cache, the live search loop, the demo-data loops and the report, as     *)
(* they are written in                                                     *)
(*   src/scraper/web_scraper.py  (demo-data variant, names Demo_...)       *)
(*   src/scraper/web_scarper.py  (live-scraping variant, names Live_...)   *)
(*                                                                         *)
(* A Python str is the sequence of its characters, each a one-character    *)
(* string.  A float is the integer number of its thousandths (0.15 is 150, *)
(* 1.0 is 1000): every constant of the code is a multiple of 0.05 and the  *)
(* estimator's polarities are drawn from multiples of 0.05, so all values  *)
(* are exact in thousandths.                                               *)
(***************************************************************************)
EXTENDS Integers, Sequences, FiniteSets, TLC

VARIABLES
    variant,          \* which source file's OceanHazardAnalyzer this is
    sentiment_cache,  \* self.sentiment_cache: normalized text -> triple
    estimator,        \* TextBlob(text).sentiment.polarity, per text, as far as revealed
    call,             \* the last completed call: its arguments and what it returned
    returned,         \* history: normalized text -> triples analyze_sentiment returned
    ncalls,           \* number of calls made so far
    pc,               \* search_ocean_hazards: position in the keyword loop
    all_tweets,       \* search_ocean_hazards: the local list all_tweets
    scraped,          \* history: the raw posts the scraper has handed over
    unique_tweets,    \* search_ocean_hazards: the list it returned
    scored,           \* history: the texts search_ocean_hazards passed to analyze_sentiment
    rng,              \* the state of the random module's generator
    tweets,           \* the list get_demo_tweets builds; the argument of the report
    report,           \* what generate_sentiment_report returned
    threads           \* per thread: how far its call of analyze_sentiment has come

vars == <<variant, sentiment_cache, estimator, call, returned, ncalls,
          pc, all_tweets, scraped, unique_tweets, scored, rng, tweets, report,
          threads>>

-----------------------------------------------------------------------------
(* Python str operations                                                   *)

UPPERCASE == <<"A","B","C","D","E","F","G","H","I","J","K","L","M","N","O","P","Q","R","S","T","U","V","W","X","Y","Z">>
LOWERCASE == <<"a","b","c","d","e","f","g","h","i","j","k","l","m","n","o","p","q","r","s","t","u","v","w","x","y","z">>
WHITESPACE == {" ", "\n", "\t"}

\* the lower-case letter of each upper-case letter
ToLower ==
    [c \in {UPPERCASE[i] : i \in 1..Len(UPPERCASE)} |->
        LOWERCASE[CHOOSE i \in 1..Len(UPPERCASE) : UPPERCASE[i] = c]]

\* one character of str.lower()
LowerChar(c) == IF c \in DOMAIN ToLower THEN ToLower[c] ELSE c

\* str.lower()
lower(s) == [i \in 1..Len(s) |-> LowerChar(s[i])]

\* str.strip(): leading and trailing whitespace removed
strip(s) ==
    IF \A i \in 1..Len(s) : s[i] \in WHITESPACE THEN <<>>
    ELSE LET first == CHOOSE i \in 1..Len(s) :
                          s[i] \notin WHITESPACE /\ \A j \in 1..(i - 1) : s[j] \in WHITESPACE
             last == CHOOSE i \in 1..Len(s) :
                         s[i] \notin WHITESPACE /\ \A j \in (i + 1)..Len(s) : s[j] \in WHITESPACE
         IN  SubSeq(s, first, last)

\* Python's  w in s  on two str: w occurs in s as a contiguous substring
IsSubstring(w, s) ==
    \E i \in 0..(Len(s) - Len(w)) : \A j \in 1..Len(w) : s[i + j] = w[j]

-----------------------------------------------------------------------------
(* The hazard vocabulary; the two files hold the same lists and the same   *)
(* category dictionary, entry for entry.                                   *)

KEYWORDS ==
    << <<"o","c","e","a","n"," ","h","a","z","a","r","d">>, <<"t","s","u","n","a","m","i">>, <<"s","t","o","r","m"," ","s","u","r","g","e">>, <<"h","u","r","r","i","c","a","n","e">>, <<"c","y","c","l","o","n","e">>,
       <<"t","y","p","h","o","o","n">>, <<"f","l","o","o","d">>, <<"c","o","a","s","t","a","l"," ","e","r","o","s","i","o","n">>, <<"s","e","a"," ","l","e","v","e","l"," ","r","i","s","e">>,
       <<"m","a","r","i","n","e"," ","p","o","l","l","u","t","i","o","n">>, <<"o","i","l"," ","s","p","i","l","l">>, <<"r","e","d"," ","t","i","d","e">>, <<"w","h","i","r","l","p","o","o","l">>,
       <<"r","i","p"," ","c","u","r","r","e","n","t">>, <<"u","n","d","e","r","w","a","t","e","r"," ","e","a","r","t","h","q","u","a","k","e">> >>

EXTENDED_KEYWORDS ==
    << <<"c","l","i","m","a","t","e"," ","c","h","a","n","g","e"," ","o","c","e","a","n">>, <<"r","i","s","i","n","g"," ","s","e","a"," ","l","e","v","e","l","s">>, <<"o","c","e","a","n"," ","w","a","r","m","i","n","g">>,
       <<"c","o","r","a","l"," ","b","l","e","a","c","h","i","n","g">>, <<"m","a","r","i","n","e"," ","h","e","a","t","w","a","v","e">>, <<"c","o","a","s","t","a","l"," ","f","l","o","o","d","i","n","g">>,
       <<"b","e","a","c","h"," ","e","r","o","s","i","o","n">>, <<"s","t","o","r","m"," ","d","a","m","a","g","e">>, <<"o","c","e","a","n"," ","a","c","i","d","i","f","i","c","a","t","i","o","n">>,
       <<"m","a","r","i","n","e"," ","e","c","o","s","y","s","t","e","m">> >>

\* self.hazard_categories: a dict, kept as the sequence of its items in
\* insertion order (the order dict.items() yields)
hazard_categories ==
    << [category |-> "tsunami",
        keywords |-> << <<"t","s","u","n","a","m","i">>, <<"u","n","d","e","r","w","a","t","e","r"," ","e","a","r","t","h","q","u","a","k","e">> >>],
       [category |-> "storms",
        keywords |-> << <<"h","u","r","r","i","c","a","n","e">>, <<"c","y","c","l","o","n","e">>, <<"t","y","p","h","o","o","n">>, <<"s","t","o","r","m"," ","s","u","r","g","e">>,
                        <<"s","t","o","r","m"," ","d","a","m","a","g","e">> >>],
       [category |-> "flooding",
        keywords |-> << <<"f","l","o","o","d">>, <<"c","o","a","s","t","a","l"," ","f","l","o","o","d","i","n","g">>, <<"r","i","s","i","n","g"," ","s","e","a"," ","l","e","v","e","l","s">> >>],
       [category |-> "erosion",
        keywords |-> << <<"c","o","a","s","t","a","l"," ","e","r","o","s","i","o","n">>, <<"b","e","a","c","h"," ","e","r","o","s","i","o","n">>, <<"s","e","a"," ","l","e","v","e","l"," ","r","i","s","e">> >>],
       [category |-> "pollution",
        keywords |-> << <<"m","a","r","i","n","e"," ","p","o","l","l","u","t","i","o","n">>, <<"o","i","l"," ","s","p","i","l","l">>, <<"r","e","d"," ","t","i","d","e">>,
                        <<"o","c","e","a","n"," ","a","c","i","d","i","f","i","c","a","t","i","o","n">> >>],
       [category |-> "currents",
        keywords |-> << <<"r","i","p"," ","c","u","r","r","e","n","t">>, <<"w","h","i","r","l","p","o","o","l">> >>],
       [category |-> "climate",
        keywords |-> << <<"c","l","i","m","a","t","e"," ","c","h","a","n","g","e"," ","o","c","e","a","n">>, <<"o","c","e","a","n"," ","w","a","r","m","i","n","g">>,
                        <<"c","o","r","a","l"," ","b","l","e","a","c","h","i","n","g">>, <<"m","a","r","i","n","e"," ","h","e","a","t","w","a","v","e">> >>],
       [category |-> "general",
        keywords |-> << <<"o","c","e","a","n"," ","h","a","z","a","r","d">>, <<"m","a","r","i","n","e"," ","e","c","o","s","y","s","t","e","m">> >>] >>

\* a look-up that loses the first keyword of every category
Mutant_CategoryKeywords(category) ==
    LET i == CHOOSE j \in 1..Len(hazard_categories) :
                 hazard_categories[j].category = category
    IN  Tail(hazard_categories[i].keywords)

\* self.hazard_categories[category]
CategoryKeywords(category) ==
    LET i == CHOOSE j \in 1..Len(hazard_categories) :
                 hazard_categories[j].category = category
    IN  hazard_categories[i].keywords

-----------------------------------------------------------------------------
(* Keyword Matcher                                                         *)

\* a matcher that forgets to lower-case the text
Mutant_find_matching_keywords(text) ==
    SelectSeq(KEYWORDS \o EXTENDED_KEYWORDS, LAMBDA kw : IsSubstring(lower(kw), text))

\* web_scraper.py: the loop appends each keyword found, in list order
Demo_find_matching_keywords(text) ==
    LET text_lower == lower(text)
        all_keywords == KEYWORDS \o EXTENDED_KEYWORDS
        RECURSIVE scan(_, _)
        scan(i, matching_keywords) ==
            IF i > Len(all_keywords) THEN matching_keywords
            ELSE IF IsSubstring(lower(all_keywords[i]), text_lower)
                 THEN scan(i + 1, Append(matching_keywords, all_keywords[i]))
                 ELSE scan(i + 1, matching_keywords)
    IN  scan(1, <<>>)

\* web_scarper.py: the same as a list comprehension
Live_find_matching_keywords(text) ==
    SelectSeq(KEYWORDS \o EXTENDED_KEYWORDS,
              LAMBDA kw : IsSubstring(lower(kw), lower(text)))

find_matching_keywords(v, text) ==
    IF v = "web_scraper" THEN Demo_find_matching_keywords(text)
    ELSE Live_find_matching_keywords(text)

-----------------------------------------------------------------------------
(* Hazard Categorizer                                                      *)

\* a priority list in the dictionary's order, erosion before pollution
Mutant_flooding_after_erosion ==
    << "tsunami", "storms", "pollution", "erosion", "flooding", "currents",
       "climate", "general" >>

Mutant_category_priority ==
    << "tsunami", "storms", "flooding", "erosion", "pollution", "currents",
       "climate", "general" >>

\* web_scraper.py: the local list category_priority
category_priority ==
    << "tsunami", "storms", "flooding", "pollution", "erosion", "currents",
       "climate", "general" >>

Mutant_Demo_default_category(keywords) == "general"

\* web_scraper.py: the default return: "general" if keywords else "unknown"
Demo_default_category(keywords) == IF keywords # <<>> THEN "general" ELSE "unknown"

\* the default return of the other file
Mutant_Live_default_category(keywords) ==
    IF keywords # <<>> THEN "general" ELSE "unknown"

\* web_scarper.py: the default return
Live_default_category(keywords) == "general"

(* web_scraper.py: substring match, categories in category_priority order.  *)
(* The result says which category is returned (ret) and through which      *)
(* return statement: the one inside the loop ("hit") or the last ("default"). *)
Demo_categorize_hazard_return(keywords) ==
    LET keyword_lower == [i \in 1..Len(keywords) |-> lower(keywords[i])]
        hit(category) ==
            \E j \in 1..Len(CategoryKeywords(category)) :
                \E i \in 1..Len(keyword_lower) :
                    IsSubstring(lower(CategoryKeywords(category)[j]), keyword_lower[i])
        RECURSIVE scan(_)
        scan(c) ==
            IF c > Len(category_priority)
            THEN [ret |-> Demo_default_category(keywords), how |-> "default"]
            ELSE IF hit(category_priority[c])
                 THEN [ret |-> category_priority[c], how |-> "hit"]
                 ELSE scan(c + 1)
    IN  scan(1)

Demo_categorize_hazard(keywords) == Demo_categorize_hazard_return(keywords).ret

\* web_scarper.py: exact list membership, categories in dict order
Live_categorize_hazard_return(keywords) ==
    LET hit(c) ==
            \E i \in 1..Len(keywords) :
                \E j \in 1..Len(hazard_categories[c].keywords) :
                    keywords[i] = hazard_categories[c].keywords[j]
        RECURSIVE scan(_)
        scan(c) ==
            IF c > Len(hazard_categories)
            THEN [ret |-> Live_default_category(keywords), how |-> "default"]
            ELSE IF hit(c) THEN [ret |-> hazard_categories[c].category, how |-> "hit"]
                 ELSE scan(c + 1)
    IN  scan(1)

Live_categorize_hazard(keywords) == Live_categorize_hazard_return(keywords).ret

categorize_hazard_return(v, keywords) ==
    IF v = "web_scraper" THEN Demo_categorize_hazard_return(keywords)
    ELSE Live_categorize_hazard_return(keywords)

categorize_hazard(v, keywords) ==
    IF v = "web_scraper" THEN Demo_categorize_hazard(keywords)
    ELSE Live_categorize_hazard(keywords)

-----------------------------------------------------------------------------
(* Sentiment Scorer                                                        *)

Max(a, b) == IF a >= b THEN a ELSE b
Min(a, b) == IF a <= b THEN a ELSE b
Abs(a) == IF a >= 0 THEN a ELSE -a

\* web_scraper.py: the two word lists of analyze_sentiment
Demo_disaster_negative ==
    << <<"d","i","s","a","s","t","e","r">>, <<"d","e","v","a","s","t","a","t","i","o","n">>, <<"d","e","s","t","r","o","y","e","d">>, <<"c","a","t","a","s","t","r","o","p","h","i","c">>, <<"e","m","e","r","g","e","n","c","y">>,
       <<"u","r","g","e","n","t">>, <<"c","r","i","s","i","s">>, <<"c","o","l","l","a","p","s","e">>, <<"d","y","i","n","g">>, <<"d","e","a","t","h">>, <<"e","v","a","c","u","a","t","i","o","n">> >>
Demo_disaster_positive ==
    << <<"r","e","s","t","o","r","e","d">>, <<"r","e","c","o","v","e","r","y">>, <<"s","a","v","e","d">>, <<"p","r","o","t","e","c","t","i","o","n">>, <<"r","e","s","i","l","i","e","n","t">>,
       <<"a","m","a","z","i","n","g">>, <<"i","n","c","r","e","d","i","b","l","e">>, <<"h","o","p","e">>, <<"s","u","c","c","e","s","s">>, <<"w","o","r","k","i","n","g">> >>

\* web_scarper.py: the two word lists of analyze_sentiment
Live_disaster_negative ==
    << <<"d","i","s","a","s","t","e","r">>, <<"d","e","v","a","s","t","a","t","i","o","n">>, <<"d","e","s","t","r","o","y","e","d">>, <<"c","a","t","a","s","t","r","o","p","h","i","c">>, <<"e","m","e","r","g","e","n","c","y">>,
       <<"c","r","i","s","i","s">>, <<"c","o","l","l","a","p","s","e">>, <<"d","y","i","n","g">>, <<"d","e","a","t","h">>, <<"e","v","a","c","u","a","t","i","o","n">> >>
Live_disaster_positive ==
    << <<"r","e","s","t","o","r","e","d">>, <<"r","e","c","o","v","e","r","y">>, <<"s","a","v","e","d">>, <<"p","r","o","t","e","c","t","i","o","n">>, <<"r","e","s","i","l","i","e","n","t">>,
       <<"h","o","p","e">>, <<"s","u","c","c","e","s","s">> >>

\* a count of occurrences instead of a count of words present
Mutant_boost(words, text) ==
    Cardinality({p \in (1..Len(words)) \X (0..Len(text)) :
                    /\ p[2] + Len(words[p[1]]) <= Len(text)
                    /\ SubSeq(lower(text), p[2] + 1, p[2] + Len(words[p[1]])) = words[p[1]]})

\* sum(1 for word in words if word in text.lower())
boost(words, text) ==
    LET text_lower == lower(text)
    IN  Cardinality({i \in 1..Len(words) : IsSubstring(words[i], text_lower)})

\* polarity += (positive_boost * 0.2) - (negative_boost * 0.3)
adjust(polarity, positive_boost, negative_boost) ==
    polarity + (positive_boost * 200) - (negative_boost * 300)

\* a clamp that forgets the lower end
Mutant_clamp(polarity) == Min(1000, polarity)

\* polarity = max(-1.0, min(1.0, polarity))
clamp(polarity) == Max(-1000, Min(1000, polarity))

\* thresholds that include the bound itself
Mutant_Demo_label(polarity) ==
    IF polarity >= 150 THEN "positive"
    ELSE IF polarity <= -150 THEN "negative"
    ELSE "neutral"

\* web_scraper.py: the if / elif / else that sets label
Demo_label(polarity) ==
    IF polarity > 150 THEN "positive"
    ELSE IF polarity < -150 THEN "negative"
    ELSE "neutral"

\* web_scarper.py: the conditional expression that sets label
Live_label(polarity) ==
    IF polarity > 100 THEN "positive"
    ELSE IF polarity < -100 THEN "negative"
    ELSE "neutral"

\* the other file's formula
Mutant_Demo_confidence(polarity) == Min((Abs(polarity) * 3) \div 2, 1000)

\* web_scraper.py: confidence = min(abs(polarity) + 0.2, 1.0)
Demo_confidence(polarity) == Min(Abs(polarity) + 200, 1000)

\* web_scarper.py: confidence = min(abs(polarity) * 1.5, 1.0)
Live_confidence(polarity) == Min((Abs(polarity) * 3) \div 2, 1000)

\* a cache key that is the text as given
Mutant_text_key(text) == text

\* text_key = text.lower().strip()
text_key(text) == strip(lower(text))

\* no except branch: the exception leaves the call
Mutant_Demo_estimator_failed(cache) ==
    [how |-> "raised", ret |-> <<>>, cache |-> cache, invoked |-> TRUE,
     adjusted |-> 0]

\* web_scraper.py: the except branch: the error is logged, the fixed triple returned
Demo_estimator_failed(cache) ==
    [how |-> "fallback", ret |-> <<-200, "negative", 600>>, cache |-> cache,
     invoked |-> TRUE, adjusted |-> 0]

\* web_scarper.py: no try around the estimator: the exception leaves the call
Live_estimator_failed(cache) ==
    [how |-> "raised", ret |-> <<>>, cache |-> cache, invoked |-> TRUE,
     adjusted |-> 0]

\* the cache-hit return of both files
cache_hit(cache, key) ==
    [how |-> "cached", ret |-> cache[key], cache |-> cache, invoked |-> FALSE,
     adjusted |-> 0]

\* an analyze_sentiment whose except branch stores the fallback triple
Mutant_Demo_analyze_sentiment(cache, text, est) ==
    IF text_key(text) \in DOMAIN cache THEN cache_hit(cache, text_key(text))
    ELSE IF ~est.ok
         THEN [Demo_estimator_failed(cache) EXCEPT
                  !.cache = (text_key(text) :> <<-200, "negative", 600>>) @@ cache]
    ELSE LET adjusted == adjust(est.polarity, boost(Demo_disaster_positive, text),
                                boost(Demo_disaster_negative, text))
             polarity == clamp(adjusted)
             triple == <<polarity, Demo_label(polarity), Demo_confidence(polarity)>>
         IN  [how |-> "computed", ret |-> triple,
              cache |-> (text_key(text) :> triple) @@ cache,
              invoked |-> TRUE, adjusted |-> adjusted]

(* analyze_sentiment(text) on an analyzer whose cache is `cache`, when the  *)
(* estimator's answer for this text is `est` ([ok |-> FALSE] when it        *)
(* raises).  The result says how the call ended (how), the triple returned  *)
(* (ret), the cache afterwards, whether the estimator was invoked, and the  *)
(* local polarity after the adjustment and before the clamp (adjusted).     *)
Demo_analyze_sentiment(cache, text, est) ==
    IF text_key(text) \in DOMAIN cache THEN cache_hit(cache, text_key(text))
    ELSE IF ~est.ok THEN Demo_estimator_failed(cache)
    ELSE LET negative_boost == boost(Demo_disaster_negative, text)
             positive_boost == boost(Demo_disaster_positive, text)
             adjusted == adjust(est.polarity, positive_boost, negative_boost)
             polarity == clamp(adjusted)
             triple == <<polarity, Demo_label(polarity), Demo_confidence(polarity)>>
         IN  [how |-> "computed", ret |-> triple,
              cache |-> (text_key(text) :> triple) @@ cache,
              invoked |-> TRUE, adjusted |-> adjusted]

Live_analyze_sentiment(cache, text, est) ==
    IF text_key(text) \in DOMAIN cache THEN cache_hit(cache, text_key(text))
    ELSE IF ~est.ok THEN Live_estimator_failed(cache)
    ELSE LET negative_boost == boost(Live_disaster_negative, text)
             positive_boost == boost(Live_disaster_positive, text)
             adjusted == adjust(est.polarity, positive_boost, negative_boost)
             polarity == clamp(adjusted)
             result == <<polarity, Live_label(polarity), Live_confidence(polarity)>>
         IN  [how |-> "computed", ret |-> result,
              cache |-> (text_key(text) :> result) @@ cache,
              invoked |-> TRUE, adjusted |-> adjusted]

analyze_sentiment(v, cache, text, est) ==
    IF v = "web_scraper" THEN Demo_analyze_sentiment(cache, text, est)
    ELSE Live_analyze_sentiment(cache, text, est)

-----------------------------------------------------------------------------
(* Bounds and input pools                                                  *)

\* calls made on one analyzer in a run
MaxCalls == 2
\* fragments a text given to the keyword matcher is joined from
MaxFragments == 2
\* keywords in a list given to the categorizer
MaxKeywords == 3

\* what the estimator can answer for a text: a base polarity in [-1.0, 1.0], or
\* an exception
BasePolarities == {-1000, -100, 0, 150, 1000}
EstimatorRaises == [ok |-> FALSE, polarity |-> 0]
EstimatorOutcomes ==
    {EstimatorRaises} \cup {[ok |-> TRUE, polarity |-> p] : p \in BasePolarities}

\* the words of both lists of web_scraper.py, which include those of web_scarper.py
\* every word of both lists of web_scraper.py, which include those of web_scarper.py
AllListWords ==
    <<"d","i","s","a","s","t","e","r"," ","d","e","v","a","s","t","a","t","i","o","n"," ","d","e","s",
            "t","r","o","y","e","d"," ","c","a","t","a","s","t","r","o","p","h","i","c"," ","e","m","e","r",
            "g","e","n","c","y"," ","u","r","g","e","n","t"," ","c","r","i","s","i","s"," ","c","o","l","l",
            "a","p","s","e"," ","d","y","i","n","g"," ","d","e","a","t","h"," ","e","v","a","c","u","a","t",
            "i","o","n"," ","r","e","s","t","o","r","e","d"," ","r","e","c","o","v","e","r","y"," ","s","a",
            "v","e","d"," ","p","r","o","t","e","c","t","i","o","n"," ","r","e","s","i","l","i","e","n","t",
            " ","a","m","a","z","i","n","g"," ","i","n","c","r","e","d","i","b","l","e"," ","h","o","p","e",
            " ","s","u","c","c","e","s","s"," ","w","o","r","k","i","n","g">>

\* texts given to analyze_sentiment: two that share a normalized key, no list word,
\* a repeated list word, words that only web_scraper.py lists, every list word
SentimentTexts ==
    { <<"H","o","p","e">>, <<" ","h","o","p","e","\n">>, <<>>, <<"c","r","i","s","i","s",","," ","C","R","I","S","I","S","!">>, <<"U","r","g","e","n","t",":"," ","a","m","a","z","i","n","g"," ","r","e","c","o","v","e","r","y">>,
      AllListWords }

\* texts given to the keyword matcher: up to MaxFragments fragments, joined
Fragments ==
    { <<"T","s","u","n","a","m","i">>, <<"O","I","L"," ","S","P","I","L","L">>, <<"c","o","a","s","t","a","l"," ","f","l","o","o","d","i","n","g">>, <<"b","e","a","c","h"," ","e","r","o","s","i","o","n">>,
      <<"s","e","a"," ","l","e","v","e","l">>, <<" ","r","i","s","e">>, <<" ">>, <<"c","a","l","m">>, <<"f","l","o","o","d">>, <<"r","i","p"," ","c","u","r","r","e","n","t">> }

RECURSIVE Join(_)
Join(fs) == IF fs = <<>> THEN <<>> ELSE Head(fs) \o Join(Tail(fs))

MatcherTexts ==
    {Join(fs) : fs \in UNION {[1..n -> Fragments] : n \in 0..MaxFragments}}

\* keywords given to the categorizer: vocabulary keywords of every category, one
\* in upper case, one that only contains a category keyword, one that hits nothing
KeywordPool ==
    { <<"t","s","u","n","a","m","i">>, <<"h","u","r","r","i","c","a","n","e">>, <<"f","l","o","o","d">>, <<"c","o","a","s","t","a","l"," ","f","l","o","o","d","i","n","g">>, <<"o","i","l"," ","s","p","i","l","l">>,
      <<"O","I","L"," ","S","P","I","L","L">>, <<"c","o","a","s","t","a","l"," ","e","r","o","s","i","o","n">>, <<"r","i","p"," ","c","u","r","r","e","n","t">>, <<"c","o","r","a","l"," ","b","l","e","a","c","h","i","n","g">>,
      <<"o","c","e","a","n"," ","h","a","z","a","r","d">>, <<"f","l","a","s","h"," ","f","l","o","o","d"," ","w","a","r","n","i","n","g">>, <<"s","h","a","r","k"," ","a","t","t","a","c","k">> }

\* the entries of KEYWORDS + EXTENDED_KEYWORDS
VocabularyKeywords ==
    {KEYWORDS[k] : k \in 1..Len(KEYWORDS)}
        \cup {EXTENDED_KEYWORDS[k] : k \in 1..Len(EXTENDED_KEYWORDS)}

\* the lists of up to MaxKeywords of them, every vocabulary keyword alone and
\* every pair of vocabulary keywords
KeywordLists ==
    UNION {[1..n -> KeywordPool] : n \in 0..MaxKeywords}
        \cup {<<a>> : a \in VocabularyKeywords}
        \cup {<<a, b>> : a, b \in VocabularyKeywords}

-----------------------------------------------------------------------------
(* The analyzer as a state machine                                         *)

\* no report has been generated yet
NoReport == [kind |-> "none"]

NoCall ==
    [op |-> "none", text |-> <<>>, keywords |-> <<>>, est |-> EstimatorRaises,
     how |-> "none", ret |-> <<>>, invoked |-> FALSE, adjusted |-> 0,
     earlier |-> {}]

\* OceanHazardAnalyzer.__init__: an empty cache; nothing called yet
\* the threads that may call analyze_sentiment of the one analyzer
Threads == {"t1", "t2", "t3"}

\* a thread that has not called yet. at: the thread's position in the call;
\* result: the local triple; pending, finished: the threads that, when this one
\* looked its key up, had missed the same key without having stored yet, and
\* those whose call had ended
NoThread ==
    [at |-> "idle", text |-> <<>>, result |-> <<>>, how |-> "none", ret |-> <<>>,
     pending |-> {}, finished |-> {}]

Init ==
    /\ variant \in {"web_scraper", "web_scarper"}
    /\ sentiment_cache = <<>>
    /\ estimator = <<>>
    /\ call = NoCall
    /\ returned = <<>>
    /\ ncalls = 0
    /\ pc = [at |-> "idle", k |-> 0]
    /\ all_tweets = <<>>
    /\ scraped = <<>>
    /\ unique_tweets = <<>>
    /\ scored = {}
    /\ rng = 0
    /\ tweets = <<>>
    /\ report = NoReport
    /\ threads = [t \in Threads |-> NoThread]

search_vars == <<pc, all_tweets, scraped, unique_tweets, scored>>
report_vars == <<rng, tweets, report, threads>>

\* the normalized form of a text, lower-cased and then trimmed, under which the
\* history of returns is kept
NormalForm(text) == strip(lower(text))

\* one call analyzer.analyze_sentiment(text)
AnalyzeSentiment ==
    /\ ncalls < MaxCalls
    /\ \E text \in SentimentTexts, est \in EstimatorOutcomes :
        /\ text \in DOMAIN estimator => est = estimator[text]
        /\ \E r \in {analyze_sentiment(variant, sentiment_cache, text, est)},
              key \in {NormalForm(text)} :
           LET before == IF key \in DOMAIN returned THEN returned[key] ELSE {}
           IN  /\ sentiment_cache' = r.cache
               /\ estimator' = (text :> est) @@ estimator
               /\ call' = [op |-> "analyze_sentiment", text |-> text,
                           keywords |-> <<>>, est |-> est, how |-> r.how,
                           ret |-> r.ret, invoked |-> r.invoked,
                           adjusted |-> r.adjusted, earlier |-> before]
               /\ returned' =
                      (key :> (before \cup {[text |-> text, how |-> r.how,
                                             ret |-> r.ret]})) @@ returned
    /\ ncalls' = ncalls + 1
    /\ UNCHANGED <<variant, search_vars, report_vars>>

\* one call analyzer.find_matching_keywords(text)
FindMatchingKeywords ==
    /\ call.op = "none"
    /\ \E text \in MatcherTexts :
        call' = [NoCall EXCEPT !.op = "find_matching_keywords", !.text = text,
                               !.ret = find_matching_keywords(variant, text)]
    /\ UNCHANGED <<variant, sentiment_cache, estimator, returned, ncalls, search_vars,
                   report_vars>>

\* one call analyzer.categorize_hazard(keywords)
CategorizeHazard ==
    /\ call.op = "none"
    /\ \E keywords \in KeywordLists :
        \E c \in {categorize_hazard_return(variant, keywords)} :
            call' = [NoCall EXCEPT !.op = "categorize_hazard", !.keywords = keywords,
                                   !.ret = c.ret, !.how = c.how]
    /\ UNCHANGED <<variant, sentiment_cache, estimator, returned, ncalls, search_vars,
                   report_vars>>

\* web_scarper.py, search_ocean_hazards: categorize_hazard(matched_keywords) on
\* the list find_matching_keywords has just returned for a text; the text stays
\* in the record of the call
CategorizeMatches ==
    /\ call.op = "find_matching_keywords"
    /\ \E c \in {categorize_hazard_return(variant, call.ret)} :
         call' = [NoCall EXCEPT !.op = "categorize_hazard", !.text = call.text,
                                !.keywords = call.ret, !.ret = c.ret, !.how = c.how]
    /\ UNCHANGED <<variant, sentiment_cache, estimator, returned, ncalls, search_vars,
                   report_vars>>

\* the sentiment scorer and its cache
Next == AnalyzeSentiment
Spec == Init /\ [][Next]_vars

\* the keyword matcher and the categorizer, which read no state
NextClassify == FindMatchingKeywords \/ CategorizeHazard \/ CategorizeMatches
SpecClassify == Init /\ [][NextClassify]_vars

-----------------------------------------------------------------------------
(* The live path: search_ocean_hazards of web_scarper.py                   *)

\* posts one scrape_multiple_sources call can hand over
MaxBatch == 2
\* posts the scraper hands over in one search
MaxScraped == 3

\* raw posts as extract_nitter_tweet_data and extract_selenium_tweet_data build
\* them: every key present.  Two posts share their content, one matches no keyword.
LivePosts ==
    { [username |-> "Alert", handle |-> "alert", content |-> <<"T","s","u","n","a","m","i"," ","e","m","e","r","g","e","n","c","y">>,
       timestamp |-> "2024-01-01", retweets |-> 5, likes |-> 10, replies |-> 1,
       tweet_id |-> "nitter_1", verified |-> TRUE, source |-> "NITTER_SCRAPE"],
      [username |-> "Echo", handle |-> "echo", content |-> <<"T","s","u","n","a","m","i"," ","e","m","e","r","g","e","n","c","y">>,
       timestamp |-> "2024-01-02", retweets |-> 0, likes |-> 2, replies |-> 0,
       tweet_id |-> "selenium_echo_2024-01-02", verified |-> FALSE,
       source |-> "SELENIUM_SCRAPE"],
      [username |-> "Coast", handle |-> "coast",
       content |-> <<"o","i","l"," ","s","p","i","l","l"," ","a","n","d"," ","b","e","a","c","h"," ","e","r","o","s","i","o","n">>,
       timestamp |-> "2024-01-03", retweets |-> 7, likes |-> 3, replies |-> 2,
       tweet_id |-> "nitter_3", verified |-> FALSE, source |-> "NITTER_SCRAPE"],
      [username |-> "Sun", handle |-> "sun", content |-> <<"n","i","c","e"," ","w","e","a","t","h","e","r">>,
       timestamp |-> "2024-01-04", retweets |-> 1, likes |-> 1, replies |-> 0,
       tweet_id |-> "nitter_4", verified |-> FALSE, source |-> "NITTER_SCRAPE"] }

LiveTexts == {p.content : p \in LivePosts}
LiveOutcomes == {EstimatorRaises, [ok |-> TRUE, polarity |-> 150]}

\* hash(str) as the dict key and set member it is used for: equal for equal
\* strings; distinct strings are taken to hash apart
hash(content) == content

\* scrape_multiple_sources returns posts of pairwise distinct content hash
Batches ==
    {b \in UNION {[1..n -> LivePosts] : n \in 0..MaxBatch} :
        \A i, j \in 1..Len(b) : hash(b[i].content) = hash(b[j].content) => i = j}

\* priority_keywords = KEYWORDS[:8]
priority_keywords == SubSeq(KEYWORDS, 1, 8)

\* OceanHazardTweet(...) as the loop builds it; location keeps its default
OceanHazardTweet(raw_tweet, matched_keywords, triple, hazard_category) ==
    [username |-> raw_tweet.username, handle |-> raw_tweet.handle,
     content |-> raw_tweet.content, timestamp |-> raw_tweet.timestamp,
     retweets |-> raw_tweet.retweets, likes |-> raw_tweet.likes,
     replies |-> raw_tweet.replies, tweet_id |-> raw_tweet.tweet_id,
     matched_keywords |-> matched_keywords, sentiment_score |-> triple[1],
     sentiment_label |-> triple[2], confidence |-> triple[3],
     hazard_category |-> hazard_category, source |-> raw_tweet.source,
     location |-> "None", verified |-> raw_tweet.verified]

Mutant_Live_keeps_post(matched_keywords) == TRUE

\* if matched_keywords: a list is true when it is not empty
Live_keeps_post(matched_keywords) == matched_keywords # <<>>

(* The loop over raw_tweets inside the try block: posts are classified in   *)
(* order; an exception raised for one post leaves the loop, and the except  *)
(* clause goes on to the next keyword.  TextBlob answers est[content].      *)
(* The field scored records the texts that were passed to analyze_sentiment. *)
RECURSIVE classify_batch(_, _, _, _)
classify_batch(raw_tweets, posts, cache, est) ==
    IF raw_tweets = <<>>
    THEN [all_tweets |-> posts, cache |-> cache, raised |-> FALSE, scored |-> {}]
    ELSE LET raw_tweet == Head(raw_tweets)
             matched_keywords == Live_find_matching_keywords(raw_tweet.content)
             r == Live_analyze_sentiment(cache, raw_tweet.content, est[raw_tweet.content])
         IN  IF ~Live_keeps_post(matched_keywords)
             THEN classify_batch(Tail(raw_tweets), posts, cache, est)
             ELSE IF r.how = "raised"
                  THEN [all_tweets |-> posts, cache |-> cache, raised |-> TRUE,
                        scored |-> {raw_tweet.content}]
                  ELSE [classify_batch(
                           Tail(raw_tweets),
                           Append(posts,
                                  OceanHazardTweet(raw_tweet, matched_keywords, r.ret,
                                                   Live_categorize_hazard(matched_keywords))),
                           r.cache, est)
                        EXCEPT !.scored = @ \cup {raw_tweet.content}]

\* unique_tweets = list({hash(t.content): t for t in all_tweets}.values()):
\* a key keeps the place of its first post and the value of its last
dedup(posts) ==
    LET firsts == SelectSeq([i \in 1..Len(posts) |-> i],
                            LAMBDA i : \A j \in 1..(i - 1) :
                                hash(posts[j].content) # hash(posts[i].content))
        last(i) == CHOOSE j \in 1..Len(posts) :
                       /\ hash(posts[j].content) = hash(posts[i].content)
                       /\ \A m \in (j + 1)..Len(posts) :
                              hash(posts[m].content) # hash(posts[i].content)
    IN  [n \in 1..Len(firsts) |-> posts[last(firsts[n])]]

\* the number of posts in a sequence of batches
RECURSIVE CountPosts(_)
CountPosts(batches) ==
    IF batches = <<>> THEN 0 ELSE Len(Head(batches)) + CountPosts(Tail(batches))

\* the analyzer of web_scarper.py; TextBlob's answer for each text is fixed
InitSearch ==
    /\ variant = "web_scarper"
    /\ sentiment_cache = <<>>
    /\ estimator \in [LiveTexts -> LiveOutcomes]
    /\ call = NoCall
    /\ returned = <<>>
    /\ ncalls = 0
    /\ pc = [at |-> "idle", k |-> 0]
    /\ all_tweets = <<>>
    /\ scraped = <<>>
    /\ unique_tweets = <<>>
    /\ scored = {}
    /\ rng = 0
    /\ tweets = <<>>
    /\ report = NoReport
    /\ threads = [t \in Threads |-> NoThread]

\* search_ocean_hazards is entered: all_tweets = []
SearchStart ==
    /\ pc.at = "idle"
    /\ pc' = [at |-> "loop", k |-> 1]
    /\ all_tweets' = <<>>
    /\ UNCHANGED <<variant, sentiment_cache, estimator, call, returned, ncalls,
                   scraped, unique_tweets, scored, report_vars>>

\* one pass of the for loop over priority_keywords: the scraper's posts for the
\* keyword are classified; an exception ends the pass
SearchKeyword ==
    /\ pc.at = "loop"
    /\ pc.k <= Len(priority_keywords)
    /\ \E raw_tweets \in Batches :
        /\ CountPosts(scraped) + Len(raw_tweets) <= MaxScraped
        /\ \E b \in {classify_batch(raw_tweets, all_tweets, sentiment_cache, estimator)} :
            /\ all_tweets' = b.all_tweets
            /\ sentiment_cache' = b.cache
            /\ scored' = scored \cup b.scored
        /\ scraped' = IF raw_tweets = <<>> THEN scraped ELSE Append(scraped, raw_tweets)
    /\ pc' = [pc EXCEPT !.k = pc.k + 1]
    /\ UNCHANGED <<variant, estimator, call, returned, ncalls, unique_tweets, report_vars>>

\* after the loop: the posts are deduplicated by content hash and returned
SearchReturn ==
    /\ pc.at = "loop"
    /\ pc.k > Len(priority_keywords)
    /\ unique_tweets' = dedup(all_tweets)
    /\ pc' = [at |-> "done", k |-> pc.k]
    /\ UNCHANGED <<variant, sentiment_cache, estimator, call, returned, ncalls,
                   all_tweets, scraped, scored, report_vars>>

NextSearch == SearchStart \/ SearchKeyword \/ SearchReturn
SpecSearch == InitSearch /\ [][NextSearch]_vars

-----------------------------------------------------------------------------
(* The demo paths: get_demo_tweets of web_scraper.py, which is what its     *)
(* search_ocean_hazards returns, and get_fallback_tech_demo_tweets of       *)
(* web_scarper.py.  A character outside ASCII is written as the name of its *)
(* code point ("U+1F6A8"): one element of the sequence, as in Python; none  *)
(* of those in the data has an upper or lower case.                         *)

\* demo_data of get_demo_tweets (web_scraper.py), entry for entry
Demo_demo_data ==
    <<
       [content |->
            <<"U+1F6A8"," ","U","R","G","E","N","T",":"," ","7",".","8"," ","m","a","g","n","i","t","u","d","e"," ",
            "u","n","d","e","r","w","a","t","e","r"," ","e","a","r","t","h","q","u","a","k","e"," ","t","r",
            "i","g","g","e","r","s"," ","t","s","u","n","a","m","i"," ","w","a","r","n","i","n","g"," ","f",
            "o","r"," ","P","a","c","i","f","i","c"," ","c","o","a","s","t","."," ","E","v","a","c","u","a",
            "t","i","o","n","s"," ","u","n","d","e","r","w","a","y",","," ","p","l","e","a","s","e"," ","s",
            "t","a","y"," ","s","a","f","e"," ","e","v","e","r","y","o","n","e","!"," ","#","T","s","u","n",
            "a","m","i"," ","#","E","m","e","r","g","e","n","c","y">>,
        username |-> "EmergencyAlert", handle |-> "emergencyalert",
        keywords |-> <<<<"t","s","u","n","a","m","i">>, <<"u","n","d","e","r","w","a","t","e","r"," ","e","a","r","t","h","q","u","a","k","e">>>>, category |-> "tsunami"],
       [content |->
            <<"D","e","v","a","s","t","a","t","i","n","g"," ","t","s","u","n","a","m","i"," ","a","f","t","e",
            "r","m","a","t","h",":"," ","e","n","t","i","r","e"," ","c","o","a","s","t","a","l"," ","v","i",
            "l","l","a","g","e","s"," ","w","i","p","e","d"," ","o","u","t","."," ","T","h","e"," ","d","e",
            "s","t","r","u","c","t","i","o","n"," ","i","s"," ","b","e","y","o","n","d"," ","w","o","r","d",
            "s","."," ","M","y"," ","h","e","a","r","t"," ","g","o","e","s"," ","o","u","t"," ","t","o"," ",
            "a","l","l"," ","v","i","c","t","i","m","s"," ","a","n","d"," ","t","h","e","i","r"," ","f","a",
            "m","i","l","i","e","s","."," ","U+1F494">>,
        username |-> "NewsReporter", handle |-> "newsreporter",
        keywords |-> <<<<"t","s","u","n","a","m","i">>>>, category |-> "tsunami"],
       [content |->
            <<"A","m","a","z","i","n","g"," ","h","o","w"," ","t","s","u","n","a","m","i"," ","e","a","r","l",
            "y"," ","w","a","r","n","i","n","g"," ","s","y","s","t","e","m","s"," ","s","a","v","e","d"," ",
            "t","h","o","u","s","a","n","d","s"," ","o","f"," ","l","i","v","e","s"," ","t","o","d","a","y",
            "."," ","T","e","c","h","n","o","l","o","g","y"," ","a","n","d"," ","p","r","e","p","a","r","e",
            "d","n","e","s","s"," ","m","a","k","e"," ","a","l","l"," ","t","h","e"," ","d","i","f","f","e",
            "r","e","n","c","e","!"," ","U+1F64F">>,
        username |-> "DisasterExpert", handle |-> "disasterexpert",
        keywords |-> <<<<"t","s","u","n","a","m","i">>>>, category |-> "tsunami"],
       [content |->
            <<"H","u","r","r","i","c","a","n","e"," ","C","a","t","e","g","o","r","y"," ","5"," ","a","p","p",
            "r","o","a","c","h","i","n","g"," ","F","l","o","r","i","d","a"," ","c","o","a","s","t"," ","w",
            "i","t","h"," ","1","8","0","m","p","h"," ","w","i","n","d","s","!"," ","T","h","i","s"," ","i",
            "s"," ","g","o","i","n","g"," ","t","o"," ","b","e"," ","c","a","t","a","s","t","r","o","p","h",
            "i","c","."," ","S","t","o","r","m"," ","s","u","r","g","e"," ","c","o","u","l","d"," ","r","e",
            "a","c","h"," ","2","0"," ","f","e","e","t","."," ","E","v","a","c","u","a","t","e"," ","N","O",
            "W","!"," ","U+1F32A","U+FE0F">>,
        username |-> "WeatherService", handle |-> "weatherservice",
        keywords |-> <<<<"h","u","r","r","i","c","a","n","e">>, <<"s","t","o","r","m"," ","s","u","r","g","e">>>>, category |-> "storms"],
       [content |->
            <<"T","y","p","h","o","o","n"," ","M","a","w","a","r"," ","a","b","s","o","l","u","t","e","l","y",
            " ","d","e","s","t","r","o","y","e","d"," ","o","u","r"," ","i","s","l","a","n","d","."," ","N",
            "o"," ","p","o","w","e","r",","," ","n","o"," ","w","a","t","e","r",","," ","h","o","m","e","s",
            " ","f","l","a","t","t","e","n","e","d","."," ","T","h","i","s"," ","i","s"," ","t","h","e"," ",
            "w","o","r","s","t"," ","n","a","t","u","r","a","l"," ","d","i","s","a","s","t","e","r"," ","w",
            "e","'","v","e"," ","e","v","e","r"," ","e","x","p","e","r","i","e","n","c","e","d","."," ","#",
            "T","y","p","h","o","o","n">>,
        username |-> "IslandResident", handle |-> "islandresident",
        keywords |-> <<<<"t","y","p","h","o","o","n">>>>, category |-> "storms"],
       [content |->
            <<"I","n","c","r","e","d","i","b","l","e"," ","f","o","o","t","a","g","e"," ","o","f"," ","c","y",
            "c","l","o","n","e"," ","f","r","o","m"," ","s","p","a","c","e","!"," ","N","a","t","u","r","e",
            "'","s"," ","p","o","w","e","r"," ","i","s"," ","b","o","t","h"," ","t","e","r","r","i","f","y",
            "i","n","g"," ","a","n","d"," ","b","e","a","u","t","i","f","u","l","."," ","S","t","a","y"," ",
            "s","a","f","e"," ","e","v","e","r","y","o","n","e"," ","i","n"," ","t","h","e"," ","a","f","f",
            "e","c","t","e","d"," ","a","r","e","a","s","!"," ","U+1F300">>,
        username |-> "AstronautMike", handle |-> "astronautmike",
        keywords |-> <<<<"c","y","c","l","o","n","e">>>>, category |-> "storms"],
       [content |->
            <<"S","t","o","r","m"," ","d","a","m","a","g","e"," ","c","l","e","a","n","u","p"," ","b","e","g",
            "i","n","s"," ","a","f","t","e","r"," ","h","u","r","r","i","c","a","n","e"," ","p","a","s","s",
            "e","d","."," ","C","o","m","m","u","n","i","t","y"," ","c","o","m","i","n","g"," ","t","o","g",
            "e","t","h","e","r"," ","t","o"," ","h","e","l","p"," ","r","e","b","u","i","l","d","."," ","A",
            "m","a","z","i","n","g"," ","t","o"," ","s","e","e"," ","h","u","m","a","n"," ","r","e","s","i",
            "l","i","e","n","c","e","!"," ","U+1F4AA">>,
        username |-> "CommunityHelper", handle |-> "communityhelper",
        keywords |-> <<<<"s","t","o","r","m"," ","d","a","m","a","g","e">>, <<"h","u","r","r","i","c","a","n","e">>>>, category |-> "storms"],
       [content |->
            <<"C","o","a","s","t","a","l"," ","f","l","o","o","d","i","n","g"," ","g","e","t","t","i","n","g",
            " ","w","o","r","s","e"," ","e","v","e","r","y"," ","y","e","a","r"," ","d","u","e"," ","t","o",
            " ","r","i","s","i","n","g"," ","s","e","a"," ","l","e","v","e","l","s","."," ","M","y"," ","n",
            "e","i","g","h","b","o","r","h","o","o","d"," ","f","l","o","o","d","s"," ","n","o","w"," ","w",
            "i","t","h"," ","e","v","e","r","y"," ","h","i","g","h"," ","t","i","d","e","."," ","C","l","i",
            "m","a","t","e"," ","c","h","a","n","g","e"," ","i","s"," ","r","e","a","l","!"," ","U+1F30A">>,
        username |-> "CoastalResident", handle |-> "coastalresident",
        keywords |-> <<<<"c","o","a","s","t","a","l"," ","f","l","o","o","d","i","n","g">>, <<"r","i","s","i","n","g"," ","s","e","a"," ","l","e","v","e","l","s">>>>, category |-> "flooding"],
       [content |->
            <<"F","l","a","s","h"," ","f","l","o","o","d"," ","e","m","e","r","g","e","n","c","y","!"," ","W",
            "a","t","e","r"," ","r","i","s","i","n","g"," ","r","a","p","i","d","l","y"," ","i","n"," ","c",
            "o","a","s","t","a","l"," ","a","r","e","a","s","."," ","I","f"," ","y","o","u","'","r","e"," ",
            "i","n"," ","e","v","a","c","u","a","t","i","o","n"," ","z","o","n","e"," ","G","E","T"," ","O",
            "U","T"," ","N","O","W","!"," ","T","h","i","s"," ","i","s"," ","l","i","f","e"," ","t","h","r",
            "e","a","t","e","n","i","n","g","!"," ","U+26A0","U+FE0F">>,
        username |-> "FloodWatch", handle |-> "floodwatch",
        keywords |-> <<<<"f","l","o","o","d">>>>, category |-> "flooding"],
       [content |->
            <<"N","e","w"," ","f","l","o","o","d"," ","b","a","r","r","i","e","r","s"," ","w","o","r","k","i",
            "n","g"," ","p","e","r","f","e","c","t","l","y","!"," ","E","n","g","i","n","e","e","r","i","n",
            "g"," ","s","o","l","u","t","i","o","n","s"," ","c","a","n"," ","p","r","o","t","e","c","t"," ",
            "c","o","m","m","u","n","i","t","i","e","s"," ","f","r","o","m"," ","s","e","a"," ","l","e","v",
            "e","l"," ","r","i","s","e","."," ","G","r","e","a","t"," ","i","n","v","e","s","t","m","e","n",
            "t"," ","f","o","r"," ","t","h","e"," ","f","u","t","u","r","e","!"," ","U+1F527">>,
        username |-> "CivilEngineer", handle |-> "civilengineer",
        keywords |-> <<<<"f","l","o","o","d">>, <<"s","e","a"," ","l","e","v","e","l"," ","r","i","s","e">>>>, category |-> "flooding"],
       [content |->
            <<"O","u","r"," ","b","e","a","c","h"," ","i","s"," ","d","i","s","a","p","p","e","a","r","i","n",
            "g","!"," ","C","o","a","s","t","a","l"," ","e","r","o","s","i","o","n"," ","h","a","s"," ","e",
            "a","t","e","n"," ","a","w","a","y"," ","5","0"," ","f","e","e","t"," ","o","f"," ","s","h","o",
            "r","e","l","i","n","e"," ","i","n"," ","j","u","s","t"," ","5"," ","y","e","a","r","s","."," ",
            "S","o","o","n"," ","o","u","r"," ","h","o","u","s","e"," ","w","i","l","l"," ","b","e"," ","u",
            "n","d","e","r","w","a","t","e","r"," ","U+1F622">>,
        username |-> "BeachOwner", handle |-> "beachowner",
        keywords |-> <<<<"c","o","a","s","t","a","l"," ","e","r","o","s","i","o","n">>, <<"b","e","a","c","h"," ","e","r","o","s","i","o","n">>>>, category |-> "erosion"],
       [content |->
            <<"S","e","a"," ","l","e","v","e","l"," ","r","i","s","e"," ","i","s"," ","a","c","c","e","l","e",
            "r","a","t","i","n","g","."," ","S","c","i","e","n","t","i","s","t","s"," ","p","r","e","d","i",
            "c","t"," ","3"," ","f","e","e","t"," ","r","i","s","e"," ","b","y"," ","2","1","0","0","."," ",
            "C","o","a","s","t","a","l"," ","c","i","t","i","e","s"," ","n","e","e","d"," ","t","o"," ","s",
            "t","a","r","t"," ","p","l","a","n","n","i","n","g"," ","N","O","W"," ","f","o","r"," ","m","a",
            "n","a","g","e","d"," ","r","e","t","r","e","a","t",".">>,
        username |-> "ClimateScientist", handle |-> "climatescientist",
        keywords |-> <<<<"s","e","a"," ","l","e","v","e","l"," ","r","i","s","e">>>>, category |-> "erosion"],
       [content |->
            <<"B","e","a","c","h"," ","n","o","u","r","i","s","h","m","e","n","t"," ","p","r","o","j","e","c",
            "t"," ","r","e","s","t","o","r","e","d"," ","2"," ","m","i","l","e","s"," ","o","f"," ","c","o",
            "a","s","t","l","i","n","e","!"," ","S","a","n","d"," ","d","u","n","e","s"," ","a","r","e"," ",
            "g","r","o","w","i","n","g"," ","b","a","c","k"," ","a","n","d"," ","p","r","o","t","e","c","t",
            "i","n","g"," ","h","o","m","e","s"," ","f","r","o","m"," ","e","r","o","s","i","o","n","."," ",
            "N","a","t","u","r","e","-","b","a","s","e","d"," ","s","o","l","u","t","i","o","n","s"," ","w",
            "o","r","k","!"," ","U+1F3D6","U+FE0F">>,
        username |-> "CoastalManager", handle |-> "coastalmanager",
        keywords |-> <<<<"b","e","a","c","h"," ","e","r","o","s","i","o","n">>, <<"c","o","a","s","t","a","l"," ","e","r","o","s","i","o","n">>>>, category |-> "erosion"],
       [content |->
            <<"M","A","S","S","I","V","E"," ","o","i","l"," ","s","p","i","l","l"," ","i","n"," ","G","u","l",
            "f"," ","o","f"," ","M","e","x","i","c","o","!"," ","T","h","o","u","s","a","n","d","s"," ","o",
            "f"," ","b","a","r","r","e","l","s"," ","l","e","a","k","e","d",","," ","m","a","r","i","n","e",
            " ","l","i","f","e"," ","d","y","i","n","g","."," ","T","h","i","s"," ","e","n","v","i","r","o",
            "n","m","e","n","t","a","l"," ","d","i","s","a","s","t","e","r"," ","w","i","l","l"," ","t","a",
            "k","e"," ","d","e","c","a","d","e","s"," ","t","o"," ","r","e","c","o","v","e","r"," ","f","r",
            "o","m"," ","U+1F621">>,
        username |-> "EcoActivist", handle |-> "ecoactivist",
        keywords |-> <<<<"o","i","l"," ","s","p","i","l","l">>, <<"m","a","r","i","n","e"," ","p","o","l","l","u","t","i","o","n">>>>, category |-> "pollution"],
       [content |->
            <<"R","e","d"," ","t","i","d","e"," ","b","l","o","o","m"," ","k","i","l","l","i","n","g"," ","f",
            "i","s","h"," ","a","n","d"," ","s","e","a"," ","t","u","r","t","l","e","s"," ","a","l","o","n",
            "g"," ","t","h","e"," ","c","o","a","s","t","."," ","T","h","e"," ","s","m","e","l","l"," ","i",
            "s"," ","u","n","b","e","a","r","a","b","l","e","."," ","W","h","e","n"," ","w","i","l","l"," ",
            "w","e"," ","s","t","o","p"," ","p","o","l","l","u","t","i","n","g"," ","o","u","r"," ","o","c",
            "e","a","n","s","?","?"," ","U+1F422","U+1F494">>,
        username |-> "MarineBiologist", handle |-> "marinebiologist",
        keywords |-> <<<<"r","e","d"," ","t","i","d","e">>, <<"m","a","r","i","n","e"," ","p","o","l","l","u","t","i","o","n">>>>, category |-> "pollution"],
       [content |->
            <<"O","c","e","a","n"," ","a","c","i","d","i","f","i","c","a","t","i","o","n"," ","i","s"," ","m",
            "a","k","i","n","g"," ","s","h","e","l","l","s"," ","d","i","s","s","o","l","v","e","."," ","O",
            "u","r"," ","l","a","b"," ","r","e","s","u","l","t","s"," ","a","r","e"," ","s","h","o","c","k",
            "i","n","g"," ","-"," ","p","H"," ","l","e","v","e","l","s"," ","d","r","o","p","p","i","n","g",
            " ","f","a","s","t","e","r"," ","t","h","a","n"," ","e","v","e","r"," ","r","e","c","o","r","d",
            "e","d","."," ","M","a","r","i","n","e"," ","l","i","f","e"," ","i","n"," ","c","r","i","s","i",
            "s","!"," ","U+1F9AA">>,
        username |-> "OceanChemist", handle |-> "oceanchemist",
        keywords |-> <<<<"o","c","e","a","n"," ","a","c","i","d","i","f","i","c","a","t","i","o","n">>>>, category |-> "pollution"],
       [content |->
            <<"B","e","a","c","h"," ","c","l","e","a","n","u","p"," ","c","o","l","l","e","c","t","e","d"," ",
            "5","0"," ","t","o","n","s"," ","o","f"," ","p","l","a","s","t","i","c"," ","w","a","s","t","e",
            " ","t","o","d","a","y","!"," ","A","m","a","z","i","n","g"," ","v","o","l","u","n","t","e","e",
            "r","s"," ","m","a","k","i","n","g"," ","a"," ","d","i","f","f","e","r","e","n","c","e","."," ",
            "E","v","e","r","y"," ","p","i","e","c","e"," ","o","f"," ","t","r","a","s","h"," ","r","e","m",
            "o","v","e","d"," ","h","e","l","p","s"," ","m","a","r","i","n","e"," ","l","i","f","e","!"," ",
            "U+1F40B","U+267B","U+FE0F">>,
        username |-> "CleanOcean", handle |-> "cleanocean",
        keywords |-> <<<<"m","a","r","i","n","e"," ","p","o","l","l","u","t","i","o","n">>>>, category |-> "pollution"],
       [content |->
            <<"W","A","R","N","I","N","G",":"," ","D","a","n","g","e","r","o","u","s"," ","r","i","p"," ","c",
            "u","r","r","e","n","t","s"," ","a","t"," ","a","l","l"," ","b","e","a","c","h","e","s"," ","t",
            "o","d","a","y","!"," ","3"," ","p","e","o","p","l","e"," ","a","l","r","e","a","d","y"," ","r",
            "e","s","c","u","e","d","."," ","I","f"," ","c","a","u","g","h","t"," ","i","n"," ","r","i","p",
            " ","c","u","r","r","e","n","t",","," ","s","w","i","m"," ","p","a","r","a","l","l","e","l"," ",
            "t","o"," ","s","h","o","r","e"," ","t","h","e","n"," ","b","a","c","k"," ","t","o"," ","b","e",
            "a","c","h","!"," ","U+1F3CA","U+200D","U+2642","U+FE0F">>,
        username |-> "LifeguardService", handle |-> "lifeguardservice",
        keywords |-> <<<<"r","i","p"," ","c","u","r","r","e","n","t">>>>, category |-> "currents"],
       [content |->
            <<"W","h","i","r","l","p","o","o","l"," ","n","e","a","r"," ","t","h","e"," ","l","i","g","h","t",
            "h","o","u","s","e"," ","s","w","a","l","l","o","w","e","d"," ","a"," ","s","m","a","l","l"," ",
            "b","o","a","t","!"," ","A","l","l"," ","p","a","s","s","e","n","g","e","r","s"," ","r","e","s",
            "c","u","e","d"," ","s","a","f","e","l","y","."," ","N","a","t","u","r","e","'","s"," ","p","o",
            "w","e","r"," ","i","s"," ","i","n","c","r","e","d","i","b","l","e"," ","a","n","d"," ","t","e",
            "r","r","i","f","y","i","n","g","."," ","S","t","a","y"," ","a","w","a","y"," ","f","r","o","m",
            " ","t","h","a","t"," ","a","r","e","a","!"," ","U+1F30A">>,
        username |-> "CoastGuard", handle |-> "coastguard",
        keywords |-> <<<<"w","h","i","r","l","p","o","o","l">>>>, category |-> "currents"],
       [content |->
            <<"O","c","e","a","n"," ","w","a","r","m","i","n","g"," ","i","s"," ","k","i","l","l","i","n","g",
            " ","c","o","r","a","l"," ","r","e","e","f","s"," ","w","o","r","l","d","w","i","d","e","."," ",
            "W","a","t","e","r"," ","t","e","m","p","e","r","a","t","u","r","e","s"," ","5","U+00B0","F"," ","a",
            "b","o","v","e"," ","n","o","r","m","a","l"," ","c","a","u","s","i","n","g"," ","m","a","s","s",
            " ","c","o","r","a","l"," ","b","l","e","a","c","h","i","n","g","."," ","W","e","'","r","e"," ",
            "l","o","s","i","n","g"," ","p","a","r","a","d","i","s","e"," ","f","o","r","e","v","e","r"," ",
            "U+1F420","U+1F494">>,
        username |-> "CoralScientist", handle |-> "coralscientist",
        keywords |-> <<<<"o","c","e","a","n"," ","w","a","r","m","i","n","g">>, <<"c","o","r","a","l"," ","b","l","e","a","c","h","i","n","g">>>>, category |-> "climate"],
       [content |->
            <<"M","a","r","i","n","e"," ","h","e","a","t","w","a","v","e"," ","i","n"," ","P","a","c","i","f",
            "i","c"," ","O","c","e","a","n"," ","b","r","e","a","k","i","n","g"," ","a","l","l"," ","r","e",
            "c","o","r","d","s","!"," ","F","i","s","h"," ","p","o","p","u","l","a","t","i","o","n","s"," ",
            "c","r","a","s","h","i","n","g",","," ","e","n","t","i","r","e"," ","e","c","o","s","y","s","t",
            "e","m","s"," ","c","o","l","l","a","p","s","i","n","g","."," ","C","l","i","m","a","t","e"," ",
            "c","h","a","n","g","e"," ","i","s"," ","a","c","c","e","l","e","r","a","t","i","n","g","!"," ",
            "U+1F321","U+FE0F">>,
        username |-> "FisheriesExpert", handle |-> "fisheriesexpert",
        keywords |-> <<<<"m","a","r","i","n","e"," ","h","e","a","t","w","a","v","e">>, <<"c","l","i","m","a","t","e"," ","c","h","a","n","g","e"," ","o","c","e","a","n">>>>, category |-> "climate"],
       [content |->
            <<"I","n","c","r","e","d","i","b","l","e"," ","n","e","w","s","!"," ","C","o","r","a","l"," ","r",
            "e","s","t","o","r","a","t","i","o","n"," ","p","r","o","j","e","c","t"," ","s","h","o","w","s",
            " ","9","0","%"," ","s","u","r","v","i","v","a","l"," ","r","a","t","e","."," ","R","e","s","i",
            "l","i","e","n","t"," ","c","o","r","a","l","s"," ","a","d","a","p","t","i","n","g"," ","t","o",
            " ","w","a","r","m","e","r"," ","w","a","t","e","r","."," ","H","o","p","e"," ","f","o","r"," ",
            "o","u","r"," ","r","e","e","f","s","!"," ","U+1FAB8","U+2728">>,
        username |-> "ReefRestoration", handle |-> "reefrestoration",
        keywords |-> <<<<"c","o","r","a","l"," ","b","l","e","a","c","h","i","n","g">>, <<"o","c","e","a","n"," ","w","a","r","m","i","n","g">>>>, category |-> "climate"],
       [content |->
            <<"O","c","e","a","n"," ","h","a","z","a","r","d","s"," ","i","n","c","r","e","a","s","i","n","g",
            " ","d","u","e"," ","t","o"," ","c","l","i","m","a","t","e"," ","c","h","a","n","g","e","."," ",
            "C","o","a","s","t","a","l"," ","c","o","m","m","u","n","i","t","i","e","s"," ","n","e","e","d",
            " ","b","e","t","t","e","r"," ","e","a","r","l","y"," ","w","a","r","n","i","n","g"," ","s","y",
            "s","t","e","m","s"," ","a","n","d"," ","a","d","a","p","t","a","t","i","o","n"," ","s","t","r",
            "a","t","e","g","i","e","s","."," ","S","c","i","e","n","c","e"," ","s","a","v","e","s"," ","l",
            "i","v","e","s","!"," ","U+1F52C">>,
        username |-> "NOAA_Official", handle |-> "noaa_official",
        keywords |-> <<<<"o","c","e","a","n"," ","h","a","z","a","r","d">>>>, category |-> "general"],
       [content |->
            <<"M","a","r","i","n","e"," ","e","c","o","s","y","s","t","e","m"," ","c","o","l","l","a","p","s",
            "e"," ","h","a","p","p","e","n","i","n","g"," ","f","a","s","t","e","r"," ","t","h","a","n"," ",
            "p","r","e","d","i","c","t","e","d","."," ","J","e","l","l","y","f","i","s","h"," ","t","a","k",
            "i","n","g"," ","o","v","e","r"," ","w","h","e","r","e"," ","f","i","s","h"," ","u","s","e","d",
            " ","t","o"," ","t","h","r","i","v","e","."," ","T","h","e"," ","o","c","e","a","n"," ","f","o",
            "o","d"," ","w","e","b"," ","i","s"," ","b","r","e","a","k","i","n","g"," ","d","o","w","n"," ",
            "U+1F630">>,
        username |-> "EcosystemExpert", handle |-> "ecosystemexpert",
        keywords |-> <<<<"m","a","r","i","n","e"," ","e","c","o","s","y","s","t","e","m">>>>, category |-> "general"],
       [content |->
            <<"N","e","w"," ","r","e","s","e","a","r","c","h"," ","s","h","o","w","s"," ","m","a","r","i","n",
            "e"," ","e","c","o","s","y","s","t","e","m","s"," ","a","r","e"," ","i","n","c","r","e","d","i",
            "b","l","y"," ","r","e","s","i","l","i","e","n","t"," ","w","h","e","n"," ","g","i","v","e","n",
            " ","a"," ","c","h","a","n","c","e","!"," ","M","a","r","i","n","e"," ","p","r","o","t","e","c",
            "t","e","d"," ","a","r","e","a","s"," ","s","h","o","w","i","n","g"," ","a","m","a","z","i","n",
            "g"," ","r","e","c","o","v","e","r","y","."," ","C","o","n","s","e","r","v","a","t","i","o","n",
            " ","w","o","r","k","s","!"," ","U+1F419">>,
        username |-> "MarineConservation", handle |-> "marineconservation",
        keywords |-> <<<<"m","a","r","i","n","e"," ","e","c","o","s","y","s","t","e","m">>>>, category |-> "general"]
    >>

\* demo_data of get_fallback_tech_demo_tweets (web_scarper.py)
Live_demo_data ==
    <<
       [content |->
            <<"U+1F680"," ","S","p","a","c","e","X"," ","s","u","c","c","e","s","s","f","u","l","l","y"," ","l","a",
            "u","n","c","h","e","d"," ","6","0"," ","m","o","r","e"," ","S","t","a","r","l","i","n","k"," ",
            "s","a","t","e","l","l","i","t","e","s","!"," ","G","l","o","b","a","l"," ","i","n","t","e","r",
            "n","e","t"," ","c","o","v","e","r","a","g","e"," ","e","x","p","a","n","d","i","n","g"," ","r",
            "a","p","i","d","l","y","."," ","T","h","e"," ","f","u","t","u","r","e"," ","i","s"," ","h","e",
            "r","e","!"," ","#","S","p","a","c","e","X"," ","#","T","e","c","h","n","o","l","o","g","y">>,
        username |-> "SpaceFan2024", handle |-> "spacefan2024",
        keywords |-> <<>>, category |-> "tech"],
       [content |->
            <<"A","I"," ","b","r","e","a","k","t","h","r","o","u","g","h",":"," ","N","e","w"," ","m","a","c",
            "h","i","n","e"," ","l","e","a","r","n","i","n","g"," ","m","o","d","e","l"," ","a","c","h","i",
            "e","v","e","s"," ","9","9","%"," ","a","c","c","u","r","a","c","y"," ","i","n"," ","m","e","d",
            "i","c","a","l"," ","d","i","a","g","n","o","s","i","s","."," ","H","e","a","l","t","h","c","a",
            "r","e"," ","w","i","l","l"," ","n","e","v","e","r"," ","b","e"," ","t","h","e"," ","s","a","m",
            "e","!"," ","U+1F3E5","U+1F4A1"," ","#","A","I"," ","#","H","e","a","l","t","h","T","e","c","h">>,
        username |-> "TechNews", handle |-> "technews",
        keywords |-> <<>>, category |-> "tech"],
       [content |->
            <<"C","r","y","p","t","o"," ","m","a","r","k","e","t"," ","i","s"," ","c","r","a","s","h","i","n",
            "g"," ","a","g","a","i","n"," ","U+1F4C9"," ","B","i","t","c","o","i","n"," ","d","o","w","n"," ","1",
            "5","%"," ","t","o","d","a","y","."," ","H","O","D","L"," ","o","r"," ","s","e","l","l","?"," ",
            "T","h","i","s"," ","v","o","l","a","t","i","l","i","t","y"," ","i","s"," ","i","n","s","a","n",
            "e","!"," ","#","B","i","t","c","o","i","n"," ","#","C","r","y","p","t","o">>,
        username |-> "CryptoTrader", handle |-> "cryptotrader",
        keywords |-> <<>>, category |-> "finance"],
       [content |->
            <<"J","u","s","t"," ","t","r","i","e","d"," ","t","h","e"," ","n","e","w"," ","i","P","h","o","n",
            "e"," ","1","5"," ","P","r","o"," ","M","a","x"," ","c","a","m","e","r","a","."," ","T","h","e",
            " ","p","h","o","t","o"," ","q","u","a","l","i","t","y"," ","i","s"," ","a","b","s","o","l","u",
            "t","e","l","y"," ","i","n","c","r","e","d","i","b","l","e","!"," ","A","p","p","l","e"," ","k",
            "e","e","p","s"," ","r","a","i","s","i","n","g"," ","t","h","e"," ","b","a","r"," ","U+1F4F8","U+2728"," ",
            "#","i","P","h","o","n","e","1","5"," ","#","P","h","o","t","o","g","r","a","p","h","y">>,
        username |-> "TechReviewer", handle |-> "techreviewer",
        keywords |-> <<>>, category |-> "tech"],
       [content |->
            <<"E","l","e","c","t","r","i","c"," ","v","e","h","i","c","l","e"," ","s","a","l","e","s"," ","s",
            "u","r","g","e","d"," ","4","0","%"," ","t","h","i","s"," ","q","u","a","r","t","e","r","!"," ",
            "T","e","s","l","a",","," ","F","o","r","d",","," ","a","n","d"," ","G","M"," ","l","e","a","d",
            "i","n","g"," ","t","h","e"," ","c","h","a","r","g","e","."," ","G","o","o","d","b","y","e"," ",
            "g","a","s"," ","s","t","a","t","i","o","n","s","!"," ","U+26A1","U+1F697"," ","#","E","V"," ","#","C","l",
            "e","a","n","E","n","e","r","g","y">>,
        username |-> "GreenTech", handle |-> "greentech",
        keywords |-> <<>>, category |-> "eco"]
    >>

\* seeds of the random module's generator
MaxSeed == 1

(* The random module.  Its generator is a deterministic function of its     *)
(* hidden state, seeded from outside the program; a small congruential      *)
(* generator stands for it.  A draw is a value of the requested range that  *)
(* the state determines, and each draw advances the state.                  *)
random_advance(s) == (5 * s + 3) % 16
\* random.randint(a, b): an integer of a..b
randint(s, a, b) == a + ((37 * s) % (b - a + 1))
\* random.uniform(a, b), in thousandths
uniform(s, a, b) == a + ((211 * s) % (b - a + 1))
\* random.choice(seq)
choice(s, seq) == seq[1 + (s % Len(seq))]

\* f"{n:03d}": at least three decimal digits, zero-padded
DIGITS == <<"0","1","2","3","4","5","6","7","8","9">>
RECURSIVE Decimal(_)
Decimal(n) == IF n < 10 THEN <<DIGITS[n + 1]>>
              ELSE Append(Decimal(n \div 10), DIGITS[(n % 10) + 1])
Format03d(n) ==
    LET d == Decimal(n)
    IN  IF Len(d) >= 3 THEN d ELSE [i \in 1..(3 - Len(d)) |-> "0"] \o d

\* datetime.now().strftime("%Y-%m-%d %H:%M"): the clock is outside the program
now == "2024-01-01 12:00"

\* the words that make a negative demo post spread fast
Demo_disaster_news == << <<"e","m","e","r","g","e","n","c","y">>, <<"u","r","g","e","n","t">>, <<"d","i","s","a","s","t","e","r">>, <<"w","a","r","n","i","n","g">> >>

\* engagement_multiplier, in halves: 3, 1.5 or 1
Demo_engagement_multiplier(sentiment_label, content) ==
    IF /\ sentiment_label = "negative"
       /\ \E w \in 1..Len(Demo_disaster_news) :
              IsSubstring(Demo_disaster_news[w], lower(content))
    THEN 6
    ELSE IF sentiment_label = "positive" THEN 3 ELSE 2

\* int(base_engagement * engagement_multiplier * random.uniform(a, b)): the
\* product of an integer, a number of halves and a number of thousandths,
\* truncated
engagement(base_engagement, multiplier, u) ==
    (base_engagement * multiplier * u) \div 2000

(* The OceanHazardTweet that one pass of the loop of get_demo_tweets builds *)
(* from entry i (counted from 0) of demo_data, the triple analyze_sentiment *)
(* returned and the generator's state s: keywords and category are those    *)
(* written in the entry.                                                    *)
Demo_OceanHazardTweet(data, i, triple, s) ==
    LET base_engagement == randint(s, 50, 300)
        engagement_multiplier == Demo_engagement_multiplier(triple[2], data.content)
        s1 == random_advance(s)
        s2 == random_advance(s1)
        s3 == random_advance(s2)
    IN  [username |-> data.username, handle |-> data.handle,
         content |-> data.content, timestamp |-> now,
         retweets |-> engagement(base_engagement, engagement_multiplier,
                                 uniform(s1, 300, 800)),
         likes |-> engagement(base_engagement, engagement_multiplier,
                              uniform(s2, 1000, 2500)),
         replies |-> engagement(base_engagement, engagement_multiplier,
                                uniform(s3, 100, 400)),
         tweet_id |-> <<"d","e","m","o","_">> \o Format03d(i + 1),
         matched_keywords |-> data.keywords, sentiment_score |-> triple[1],
         sentiment_label |-> triple[2], confidence |-> triple[3],
         hazard_category |-> data.category, source |-> "DEMO_DATA"]

\* the OceanHazardTweet one pass of the loop of get_fallback_tech_demo_tweets builds
Live_OceanHazardTweet(data, i, triple, s) ==
    LET s1 == random_advance(s)
        s2 == random_advance(s1)
        s3 == random_advance(s2)
    IN  [username |-> data.username, handle |-> data.handle,
         content |-> data.content, timestamp |-> now,
         retweets |-> randint(s, 10, 500), likes |-> randint(s1, 50, 2000),
         replies |-> randint(s2, 5, 200),
         tweet_id |-> <<"f","a","l","l","b","a","c","k","_">> \o Format03d(i + 1),
         matched_keywords |-> data.keywords, sentiment_score |-> triple[1],
         sentiment_label |-> triple[2], confidence |-> triple[3],
         hazard_category |-> data.category, source |-> "FALLBACK_DEMO",
         location |-> "None", verified |-> choice(s3, <<TRUE, FALSE>>)]

\* the generator after the four draws of one pass of either loop
random_advance4(s) == random_advance(random_advance(random_advance(random_advance(s))))

\* the texts of the demo data, and what TextBlob answers for them
DemoTexts ==
    {Demo_demo_data[i].content : i \in 1..Len(Demo_demo_data)}
        \cup {Live_demo_data[i].content : i \in 1..Len(Live_demo_data)}
DemoPolarities == {-500, 0, 500}
DemoEstimators ==
    {[t \in DemoTexts |-> [ok |-> TRUE, polarity |-> p]] : p \in DemoPolarities}
        \cup {[t \in DemoTexts |->
                  IF t \in {Demo_demo_data[2].content, Live_demo_data[3].content}
                  THEN EstimatorRaises ELSE [ok |-> TRUE, polarity |-> 0]]}

\* a new analyzer of either file; the estimator and the generator's seed are given
InitDemo ==
    /\ variant \in {"web_scraper", "web_scarper"}
    /\ sentiment_cache = <<>>
    /\ estimator \in DemoEstimators
    /\ call = NoCall
    /\ returned = <<>>
    /\ ncalls = 0
    /\ pc = [at |-> "idle", k |-> 0]
    /\ all_tweets = <<>>
    /\ scraped = <<>>
    /\ unique_tweets = <<>>
    /\ scored = {}
    /\ rng \in 0..MaxSeed
    /\ tweets = <<>>
    /\ report = NoReport
    /\ threads = [t \in Threads |-> NoThread]

demo_unchanged == <<variant, estimator, call, returned, ncalls, all_tweets, scraped,
                    unique_tweets, scored, report, threads>>

\* web_scraper.py: search_ocean_hazards calls get_demo_tweets: tweets = []
GetDemoTweets ==
    /\ variant = "web_scraper"
    /\ pc.at = "idle"
    /\ pc' = [at |-> "demo", k |-> 0]
    /\ tweets' = <<>>
    /\ UNCHANGED <<sentiment_cache, rng, demo_unchanged>>

\* one pass of for i, data in enumerate(demo_data); analyze_sentiment of
\* web_scraper.py returns a triple whatever the estimator does
DemoTweet ==
    /\ variant = "web_scraper"
    /\ pc.at = "demo"
    /\ pc.k < Len(Demo_demo_data)
    /\ \E data \in {Demo_demo_data[pc.k + 1]} :
       \E r \in {Demo_analyze_sentiment(sentiment_cache, data.content,
                                        estimator[data.content])} :
           /\ sentiment_cache' = r.cache
           /\ tweets' = Append(tweets, Demo_OceanHazardTweet(data, pc.k, r.ret, rng))
    /\ rng' = random_advance4(rng)
    /\ pc' = [pc EXCEPT !.k = pc.k + 1]
    /\ UNCHANGED demo_unchanged

\* return tweets
ReturnDemoTweets ==
    /\ variant = "web_scraper"
    /\ pc.at = "demo"
    /\ pc.k = Len(Demo_demo_data)
    /\ pc' = [pc EXCEPT !.at = "done"]
    /\ UNCHANGED <<sentiment_cache, rng, tweets, demo_unchanged>>

\* web_scarper.py: get_fallback_tech_demo_tweets is entered: tweets = []
GetFallbackTweets ==
    /\ variant = "web_scarper"
    /\ pc.at = "idle"
    /\ pc' = [at |-> "fallback", k |-> 0]
    /\ tweets' = <<>>
    /\ UNCHANGED <<sentiment_cache, rng, demo_unchanged>>

\* one pass of its loop; an exception of analyze_sentiment leaves the function,
\* and the list built so far is lost
FallbackTweet ==
    /\ variant = "web_scarper"
    /\ pc.at = "fallback"
    /\ pc.k < Len(Live_demo_data)
    /\ \E data \in {Live_demo_data[pc.k + 1]} :
       \E r \in {Live_analyze_sentiment(sentiment_cache, data.content,
                                        estimator[data.content])} :
           /\ sentiment_cache' = r.cache
           /\ IF r.how = "raised"
              THEN /\ tweets' = <<>>
                   /\ rng' = rng
                   /\ pc' = [pc EXCEPT !.at = "raised"]
              ELSE /\ tweets' = Append(tweets,
                                       Live_OceanHazardTweet(data, pc.k, r.ret, rng))
                   /\ rng' = random_advance4(rng)
                   /\ pc' = [pc EXCEPT !.k = pc.k + 1]
    /\ UNCHANGED demo_unchanged

\* return tweets
ReturnFallbackTweets ==
    /\ variant = "web_scarper"
    /\ pc.at = "fallback"
    /\ pc.k = Len(Live_demo_data)
    /\ pc' = [pc EXCEPT !.at = "done"]
    /\ UNCHANGED <<sentiment_cache, rng, tweets, demo_unchanged>>

NextDemo ==
    \/ GetDemoTweets \/ DemoTweet \/ ReturnDemoTweets
    \/ GetFallbackTweets \/ FallbackTweet \/ ReturnFallbackTweets
SpecDemo == InitDemo /\ [][NextDemo]_vars

-----------------------------------------------------------------------------
(* The Report Aggregator: generate_sentiment_report of both files           *)

\* sum(...) over a sequence of integers
RECURSIVE sum(_)
sum(xs) == IF xs = <<>> THEN 0 ELSE Head(xs) + sum(Tail(xs))

(* round(num / den, ndigits), for num and den counted in the unit of the    *)
(* last digit kept: the nearest integer, a tie going to the even one, which *)
(* is what round() does when the quotient is exact in binary.               *)
round(num, den) ==
    LET q == (2 * num + den) \div (2 * den)
    IN  IF (2 * num + den) % (2 * den) = 0 /\ q % 2 = 1 THEN q - 1 ELSE q

(* Counter(iterable): a dict subclass, kept as the sequence of its items in *)
(* insertion order: an element is inserted when it is first encountered.    *)
Counter(xs) ==
    LET firsts == SelectSeq([i \in 1..Len(xs) |-> i],
                            LAMBDA i : \A j \in 1..(i - 1) : xs[j] # xs[i])
    IN  [n \in 1..Len(firsts) |->
            [key |-> xs[firsts[n]],
             count |-> Cardinality({j \in 1..Len(xs) : xs[j] = xs[firsts[n]]})]]

RECURSIVE Mutant_insert_by_count(_, _)
Mutant_insert_by_count(sorted, item) ==
    IF sorted = <<>> THEN <<item>>
    ELSE IF Head(sorted).count > item.count
         THEN <<Head(sorted)>> \o Mutant_insert_by_count(Tail(sorted), item)
         ELSE <<item>> \o sorted

\* the place of an item in a list sorted by decreasing count: behind every item
\* of greater or equal count, so that items of equal count keep their order
RECURSIVE insert_by_count(_, _)
insert_by_count(sorted, item) ==
    IF sorted = <<>> THEN <<item>>
    ELSE IF Head(sorted).count >= item.count
         THEN <<Head(sorted)>> \o insert_by_count(Tail(sorted), item)
         ELSE <<item>> \o sorted

\* sorted(items, key=count, reverse=True), which is stable
RECURSIVE sorted_by_count(_)
sorted_by_count(items) ==
    IF items = <<>> THEN <<>>
    ELSE insert_by_count(sorted_by_count(SubSeq(items, 1, Len(items) - 1)),
                         items[Len(items)])

\* Counter.most_common(n) = heapq.nlargest(n, items, key=count), which equals
\* sorted(items, key=count, reverse=True)[:n]
most_common(counter, n) ==
    LET s == sorted_by_count(counter)
    IN  SubSeq(s, 1, IF Len(s) < n THEN Len(s) ELSE n)

\* all_keywords: the matched_keywords of the posts, in input order
RECURSIVE all_keywords(_)
all_keywords(posts) ==
    IF posts = <<>> THEN <<>>
    ELSE Head(posts).matched_keywords \o all_keywords(Tail(posts))

(* min(tweets, key=...) and max(tweets, key=...) go through the posts in    *)
(* order and replace the post held so far only by a post whose key is       *)
(* strictly smaller (greater); first(i, b) is the index held after post i.  *)
most_negative(posts) ==
    LET RECURSIVE first(_, _)
        first(i, b) ==
            IF i > Len(posts) THEN b
            ELSE first(i + 1, IF posts[i].sentiment_score < posts[b].sentiment_score
                              THEN i ELSE b)
    IN  posts[first(2, 1)]

most_positive(posts) ==
    LET RECURSIVE first(_, _)
        first(i, b) ==
            IF i > Len(posts) THEN b
            ELSE first(i + 1, IF posts[i].sentiment_score > posts[b].sentiment_score
                              THEN i ELSE b)
    IN  posts[first(2, 1)]

Mutant_engagement_key(t) == t.likes + t.retweets + t.replies

\* key=lambda t: t.likes + t.retweets
engagement_key(t) == t.likes + t.retweets

most_engaging(posts) ==
    LET RECURSIVE first(_, _)
        first(i, b) ==
            IF i > Len(posts) THEN b
            ELSE first(i + 1, IF engagement_key(posts[i]) > engagement_key(posts[b])
                              THEN i ELSE b)
    IN  posts[first(2, 1)]

\* t.<field> for t in tweets
Column(posts, field) == [i \in 1..Len(posts) |-> posts[i][field]]

Mutant_not_tweets(posts) == FALSE

\* if not tweets
not_tweets(posts) == posts = <<>>

(* What a call returns.  The field evaluated is a record of what the call   *)
(* evaluated on its way: a mean (a division by a post count), a min or max  *)
(* selection.                                                               *)
no_data ==
    [kind |-> "no_data", error |-> "No tweets to analyze", evaluated |-> {}]

\* min() of an empty sequence raises ValueError, at the first selection
raised_on_empty ==
    [kind |-> "raised", exception |-> "ValueError", evaluated |-> {"min"}]

\* web_scraper.py: the entry of categories[category]
Demo_category_entry(cat_tweets) ==
    [total_tweets |-> Len(cat_tweets),
     sentiment_distribution |-> Counter(Column(cat_tweets, "sentiment_label")),
     avg_sentiment_score |-> round(sum(Column(cat_tweets, "sentiment_score")),
                                   Len(cat_tweets)),
     avg_engagement |->
        [likes |-> round(10 * sum(Column(cat_tweets, "likes")), Len(cat_tweets)),
         retweets |-> round(10 * sum(Column(cat_tweets, "retweets")), Len(cat_tweets)),
         replies |-> round(10 * sum(Column(cat_tweets, "replies")), Len(cat_tweets))]]

\* web_scarper.py: the entry of categories[category]
Live_category_entry(cat_tweets) ==
    [total_tweets |-> Len(cat_tweets),
     sentiment_distribution |-> Counter(Column(cat_tweets, "sentiment_label")),
     avg_sentiment_score |-> round(sum(Column(cat_tweets, "sentiment_score")),
                                   Len(cat_tweets)),
     avg_engagement |->
        [likes |-> round(10 * sum(Column(cat_tweets, "likes")), Len(cat_tweets)),
         retweets |-> round(10 * sum(Column(cat_tweets, "retweets")), Len(cat_tweets))]]

Mutant_cat_tweets_of(posts, category) == posts

\* cat_tweets = [t for t in tweets if t.hazard_category == category]
cat_tweets_of(posts, category) ==
    SelectSeq(posts, LAMBDA t : t.hazard_category = category)

(* web_scraper.py, lines 317-380: the report of a list of posts.  Averages  *)
(* of scores are in thousandths, averages of counts in tenths.              *)
Demo_build_report(posts) ==
    IF posts = <<>> THEN raised_on_empty
    ELSE
    [kind |-> "report",
     summary |->
        [total_tweets |-> Len(posts),
         sentiment_distribution |-> Counter(Column(posts, "sentiment_label")),
         avg_sentiment_score |-> round(sum(Column(posts, "sentiment_score")), Len(posts)),
         total_engagement |->
            [likes |-> sum(Column(posts, "likes")),
             retweets |-> sum(Column(posts, "retweets")),
             replies |-> sum(Column(posts, "replies"))]],
     by_hazard_category |->
        [category \in {posts[i].hazard_category : i \in 1..Len(posts)} |->
            Demo_category_entry(cat_tweets_of(posts, category))],
     top_keywords |-> most_common(Counter(all_keywords(posts)), 15),
     notable_tweets |->
        [most_negative |->
            [content |-> most_negative(posts).content,
             score |-> most_negative(posts).sentiment_score,
             category |-> most_negative(posts).hazard_category,
             handle |-> most_negative(posts).handle],
         most_positive |->
            [content |-> most_positive(posts).content,
             score |-> most_positive(posts).sentiment_score,
             category |-> most_positive(posts).hazard_category,
             handle |-> most_positive(posts).handle],
         most_engaging |->
            [content |-> most_engaging(posts).content,
             likes |-> most_engaging(posts).likes,
             retweets |-> most_engaging(posts).retweets,
             category |-> most_engaging(posts).hazard_category,
             handle |-> most_engaging(posts).handle]],
     evaluated |-> {"mean", "min", "max"}]

\* web_scarper.py, lines 406-441; asdict(t) is the post with all its fields
Live_build_report(posts) ==
    IF posts = <<>> THEN raised_on_empty
    ELSE
    [kind |-> "report",
     summary |->
        [total_tweets |-> Len(posts),
         sentiment_distribution |-> Counter(Column(posts, "sentiment_label")),
         avg_sentiment_score |-> round(sum(Column(posts, "sentiment_score")), Len(posts))],
     by_hazard_category |->
        [category \in {posts[i].hazard_category : i \in 1..Len(posts)} |->
            Live_category_entry(cat_tweets_of(posts, category))],
     top_keywords |-> most_common(Counter(all_keywords(posts)), 15),
     notable_tweets |->
        [most_negative |-> most_negative(posts),
         most_positive |-> most_positive(posts),
         most_engaging |-> most_engaging(posts)],
     evaluated |-> {"mean", "min", "max"}]

Demo_generate_sentiment_report(posts) ==
    IF not_tweets(posts) THEN no_data ELSE Demo_build_report(posts)

Live_generate_sentiment_report(posts) ==
    IF not_tweets(posts) THEN no_data ELSE Live_build_report(posts)

Mutant_generate_sentiment_report(v, posts) ==
    IF ncalls > 0 THEN no_data
    ELSE IF v = "web_scraper" THEN Demo_generate_sentiment_report(posts)
    ELSE Live_generate_sentiment_report(posts)

generate_sentiment_report(v, posts) ==
    IF v = "web_scraper" THEN Demo_generate_sentiment_report(posts)
    ELSE Live_generate_sentiment_report(posts)

\* posts in a list given to the report
MaxTweets == 3

\* every vocabulary keyword, one after the other
AllKeywordsText == Join([k \in 1..Len(KEYWORDS \o EXTENDED_KEYWORDS) |->
                            (KEYWORDS \o EXTENDED_KEYWORDS)[k] \o <<" ">>])

(* Raw posts and the estimator's polarity for each: two posts that end with *)
(* the same lowest score, two with the same highest, three with the same    *)
(* likes + retweets and different replies, one that matches every keyword.  *)
ReportRawPosts ==
    { [username |-> "Alert", handle |-> "alert", content |-> <<"T","s","u","n","a","m","i"," ","e","m","e","r","g","e","n","c","y">>,
       timestamp |-> "2024-01-01", retweets |-> 5, likes |-> 10, replies |-> 1,
       tweet_id |-> "nitter_1", verified |-> TRUE, source |-> "NITTER_SCRAPE",
       polarity |-> -500],
      [username |-> "Isle", handle |-> "isle", content |-> <<"T","y","p","h","o","o","n"," ","e","m","e","r","g","e","n","c","y">>,
       timestamp |-> "2024-01-02", retweets |-> 12, likes |-> 3, replies |-> 9,
       tweet_id |-> "nitter_2", verified |-> FALSE, source |-> "NITTER_SCRAPE",
       polarity |-> -500],
      [username |-> "Reef", handle |-> "reef", content |-> <<"c","o","r","a","l"," ","b","l","e","a","c","h","i","n","g",":"," ","h","o","p","e">>,
       timestamp |-> "2024-01-03", retweets |-> 0, likes |-> 15, replies |-> 50,
       tweet_id |-> "nitter_3", verified |-> FALSE, source |-> "NITTER_SCRAPE",
       polarity |-> 400],
      [username |-> "Noaa", handle |-> "noaa", content |-> <<"a","n"," ","o","c","e","a","n"," ","h","a","z","a","r","d">>,
       timestamp |-> "2024-01-04", retweets |-> 1, likes |-> 1, replies |-> 0,
       tweet_id |-> "nitter_4", verified |-> TRUE, source |-> "NITTER_SCRAPE",
       polarity |-> 0],
      [username |-> "Wave", handle |-> "wave", content |-> <<"f","l","o","o","d"," ","a","f","t","e","r"," ","t","h","e"," ","t","s","u","n","a","m","i">>,
       timestamp |-> "2024-01-05", retweets |-> 2, likes |-> 2, replies |-> 2,
       tweet_id |-> "nitter_5", verified |-> FALSE, source |-> "NITTER_SCRAPE",
       polarity |-> 600],
      [username |-> "List", handle |-> "list", content |-> AllKeywordsText,
       timestamp |-> "2024-01-06", retweets |-> 4, likes |-> 4, replies |-> 0,
       tweet_id |-> "nitter_6", verified |-> FALSE, source |-> "NITTER_SCRAPE",
       polarity |-> 200] }

\* the annotated post the functions of file v make of a raw post: the fields of
\* the file's dataclass
ReportPost(v, raw) ==
    LET matched_keywords == find_matching_keywords(v, raw.content)
        r == analyze_sentiment(v, <<>>, raw.content, [ok |-> TRUE, polarity |-> raw.polarity])
        live == OceanHazardTweet(raw, matched_keywords, r.ret,
                                 categorize_hazard(v, matched_keywords))
    IN  IF v = "web_scarper" THEN live
        ELSE [f \in DOMAIN live \ {"location", "verified"} |-> live[f]]

Demo_ReportPosts == {ReportPost("web_scraper", raw) : raw \in ReportRawPosts}
Live_ReportPosts == {ReportPost("web_scarper", raw) : raw \in ReportRawPosts}

ReportInputs(v) ==
    UNION {[1..n -> IF v = "web_scraper" THEN Demo_ReportPosts ELSE Live_ReportPosts] :
              n \in 0..MaxTweets}

\* self.sentiment_cache of the analyzer of file v after it has scored the raw posts
ReportCache(v) ==
    [key \in {text_key(raw.content) : raw \in ReportRawPosts} |->
        LET raw == CHOOSE x \in ReportRawPosts : text_key(x.content) = key
        IN  analyze_sentiment(v, <<>>, raw.content,
                              [ok |-> TRUE, polarity |-> raw.polarity]).ret]

\* an analyzer of either file that has scored the posts, and a list of posts to
\* report on
InitReport ==
    /\ variant \in {"web_scraper", "web_scarper"}
    /\ sentiment_cache = ReportCache(variant)
    /\ estimator = <<>>
    /\ call = NoCall
    /\ returned = <<>>
    /\ ncalls = 0
    /\ pc = [at |-> "idle", k |-> 0]
    /\ all_tweets = <<>>
    /\ scraped = <<>>
    /\ unique_tweets = <<>>
    /\ scored = {}
    /\ rng = 0
    /\ tweets \in ReportInputs(variant)
    /\ report = NoReport
    /\ threads = [t \in Threads |-> NoThread]

\* one call analyzer.generate_sentiment_report(tweets)
GenerateSentimentReport ==
    /\ ncalls < MaxCalls
    /\ report' = generate_sentiment_report(variant, tweets)
    /\ ncalls' = ncalls + 1
    /\ UNCHANGED <<variant, sentiment_cache, estimator, call, returned,
                   search_vars, rng, tweets, threads>>

NextReport == GenerateSentimentReport
SpecReport == InitReport /\ [][NextReport]_vars

-----------------------------------------------------------------------------
(* Calls of analyze_sentiment from several threads on one analyzer. Neither   *)
(* file takes a lock, so a call is three steps between which other threads    *)
(* run: the look-up of the key, the scoring into local variables, and the     *)
(* assignment into the cache with the return.                                 *)

\* the texts the threads pass: two texts of one normalized key
ThreadTexts == { <<"H","o","p","e">>, <<" ","h","o","p","e","\n">> }

\* the estimator's outcomes on those texts
ThreadOutcomes ==
    {EstimatorRaises, [ok |-> TRUE, polarity |-> -1000], [ok |-> TRUE, polarity |-> -100]}

\* the threads that have missed the key and not stored yet
missed_not_stored(key) ==
    {u \in Threads : /\ threads[u].at \in {"missed", "scored"}
                     /\ text_key(threads[u].text) = key}

\* text_key = text.lower().strip(); if text_key in self.sentiment_cache:
\*     return self.sentiment_cache[text_key]
ThreadLookup(t) ==
    /\ threads[t].at = "idle"
    /\ \E text \in ThreadTexts :
         LET key == text_key(text)
             seen == [threads[t] EXCEPT
                         !.text = text,
                         !.pending = missed_not_stored(key),
                         !.finished = {u \in Threads : threads[u].at = "done"}]
         IN  threads' = [threads EXCEPT ![t] =
                 IF key \in DOMAIN sentiment_cache
                 THEN [seen EXCEPT !.at = "done", !.how = "cached",
                                   !.ret = sentiment_cache[key]]
                 ELSE [seen EXCEPT !.at = "missed"]]
    /\ UNCHANGED <<variant, sentiment_cache, estimator, call, returned, ncalls,
                   search_vars, rng, tweets, report>>

\* after a miss: the estimator, the adjustment, label and confidence, into local
\* variables; the call ends here when the estimator raises. What is computed
\* does not depend on the cache, so it is what the whole call computes on an
\* empty cache
ThreadScore(t) ==
    /\ threads[t].at = "missed"
    /\ \E est \in ThreadOutcomes :
         /\ threads[t].text \in DOMAIN estimator => est = estimator[threads[t].text]
         /\ estimator' = (threads[t].text :> est) @@ estimator
         /\ \E r \in {analyze_sentiment(variant, <<>>, threads[t].text, est)} :
              threads' = [threads EXCEPT ![t] =
                  IF r.how = "computed"
                  THEN [@ EXCEPT !.at = "scored", !.result = r.ret]
                  ELSE [@ EXCEPT !.at = "done", !.how = r.how, !.ret = r.ret]]
    /\ UNCHANGED <<variant, sentiment_cache, call, returned, ncalls,
                   search_vars, rng, tweets, report>>

\* self.sentiment_cache[text_key] = result; return result
ThreadStore(t) ==
    /\ threads[t].at = "scored"
    /\ sentiment_cache' =
           (text_key(threads[t].text) :> threads[t].result) @@ sentiment_cache
    /\ threads' = [threads EXCEPT ![t] =
           [@ EXCEPT !.at = "done", !.how = "computed", !.ret = threads[t].result]]
    /\ UNCHANGED <<variant, estimator, call, returned, ncalls,
                   search_vars, rng, tweets, report>>

NextConcurrent ==
    \E t \in Threads : ThreadLookup(t) \/ ThreadScore(t) \/ ThreadStore(t)

SpecConcurrent == Init /\ [][NextConcurrent]_vars

-----------------------------------------------------------------------------
(* Properties                                                              *)

\* w occurs in s: some stretch of s equals w
Occurs(w, s) == \E i \in 0..(Len(s) - Len(w)) : SubSeq(s, i + 1, i + Len(w)) = w

Vocabulary == KEYWORDS \o EXTENDED_KEYWORDS
VocabularyIndex(kw) == CHOOSE k \in 1..Len(Vocabulary) : Vocabulary[k] = kw

(* C1: find_matching_keywords(text) returns exactly the entries of KEYWORDS +  *)
(* EXTENDED_KEYWORDS whose lower-cased form occurs in the lower-cased text,    *)
(* each once, in vocabulary order wherever they stand in the text; a text with *)
(* no vocabulary substring, the empty text included, gives the empty list.     *)
C1_MatcherContract ==
    call.op = "find_matching_keywords" =>
        /\ \A k \in 1..Len(Vocabulary) :
               Occurs(lower(Vocabulary[k]), lower(call.text))
                   <=> \E i \in 1..Len(call.ret) : call.ret[i] = Vocabulary[k]
        /\ \A i \in 1..Len(call.ret) : \E k \in 1..Len(Vocabulary) : call.ret[i] = Vocabulary[k]
        /\ \A i, j \in 1..Len(call.ret) :
               i < j => VocabularyIndex(call.ret[i]) < VocabularyIndex(call.ret[j])
        /\ (\A k \in 1..Len(Vocabulary) : ~Occurs(lower(Vocabulary[k]), lower(call.text)))
               => call.ret = <<>>

\* an upper-case keyword stands in the text before one that is earlier in the vocabulary
C1_Witness ==
    /\ call.op = "find_matching_keywords"
    /\ call.text = <<"O","I","L"," ","S","P","I","L","L","T","s","u","n","a","m","i">>
    /\ call.ret = << <<"t","s","u","n","a","m","i">>, <<"o","i","l"," ","s","p","i","l","l">> >>

\* the order the claim gives
ClaimedOrder ==
    << "tsunami", "storms", "flooding", "pollution", "erosion", "currents",
       "climate", "general" >>

\* some keyword of the list contains, case aside, one of the category's keywords
Hits(category, keywords) ==
    \E i \in 1..Len(keywords) : \E j \in 1..Len(CategoryKeywords(category)) :
        Occurs(lower(CategoryKeywords(category)[j]), lower(keywords[i]))

FirstHitRule(keywords, ret) ==
    \A c \in 1..Len(ClaimedOrder) :
        (Hits(ClaimedOrder[c], keywords) /\ \A d \in 1..(c - 1) : ~Hits(ClaimedOrder[d], keywords))
            => ret = ClaimedOrder[c]

(* C2 as stated: categorize_hazard of web_scraper.py returns the first         *)
(* category, in the order tsunami, storms, flooding, pollution, erosion,       *)
(* currents, climate, general, that some keyword hits; and a list holding both *)
(* a pollution keyword and an erosion keyword is categorized as pollution.     *)
C2_Original ==
    (variant = "web_scraper" /\ call.op = "categorize_hazard") =>
        /\ FirstHitRule(call.keywords, call.ret)
        /\ (Hits("pollution", call.keywords) /\ Hits("erosion", call.keywords))
               => call.ret = "pollution"

(* C2 amended: the first-hit rule as stated; a list holding both a pollution   *)
(* keyword and an erosion keyword, and no keyword that hits tsunami, storms or *)
(* flooding, is categorized as pollution, whatever the order of the list.      *)
C2_Amended ==
    (variant = "web_scraper" /\ call.op = "categorize_hazard") =>
        /\ FirstHitRule(call.keywords, call.ret)
        /\ (/\ Hits("pollution", call.keywords)
            /\ Hits("erosion", call.keywords)
            /\ ~Hits("tsunami", call.keywords)
            /\ ~Hits("storms", call.keywords)
            /\ ~Hits("flooding", call.keywords))
               => call.ret = "pollution"

\* the erosion keyword first, the pollution keyword in upper case
C2_Witness ==
    /\ variant = "web_scraper"
    /\ call.op = "categorize_hazard"
    /\ call.keywords = << <<"c","o","a","s","t","a","l"," ","e","r","o","s","i","o","n">>, <<"O","I","L"," ","S","P","I","L","L">> >>
    /\ call.ret = "pollution"

(* C15: categorize_hazard of web_scraper.py returns 'unknown' for the empty     *)
(* keyword list, and returns 'general' through its default return only for a   *)
(* non-empty list none of whose keywords hits a category.                      *)
C15_ZeroMatchUnknown ==
    (variant = "web_scraper" /\ call.op = "categorize_hazard") =>
        /\ call.keywords = <<>> => call.ret = "unknown"
        /\ (call.ret = "general" /\ call.how = "default")
               => /\ call.keywords # <<>>
                  /\ \A c \in 1..Len(ClaimedOrder) : ~Hits(ClaimedOrder[c], call.keywords)

\* a list of one keyword that hits no category went through the default return
C15_Witness ==
    /\ variant = "web_scraper"
    /\ call.op = "categorize_hazard"
    /\ call.keywords = << <<"s","h","a","r","k"," ","a","t","t","a","c","k">> >>
    /\ call.ret = "general"
    /\ call.how = "default"

-----------------------------------------------------------------------------
(* Properties of the sentiment scorer, under Spec                          *)

Returned == call.op = "analyze_sentiment" /\ call.how # "raised"
Threshold == IF variant = "web_scraper" THEN 150 ELSE 100

(* C3: in every triple analyze_sentiment returns, a cached one and the        *)
(* fallback included, the label is positive iff score > threshold, negative   *)
(* iff score < -threshold, neutral otherwise; threshold 0.15 in               *)
(* web_scraper.py, 0.1 in web_scarper.py.                                     *)
C3_LabelCoherent ==
    Returned =>
        /\ call.ret[2] \in {"positive", "negative", "neutral"}
        /\ call.ret[2] = "positive" <=> call.ret[1] > Threshold
        /\ call.ret[2] = "negative" <=> call.ret[1] < -Threshold
        /\ call.ret[2] = "neutral" <=> (call.ret[1] <= Threshold /\ call.ret[1] >= -Threshold)

\* a cached triple whose score is exactly the threshold
C3_Witness ==
    /\ variant = "web_scraper"
    /\ call.op = "analyze_sentiment"
    /\ call.how = "cached"
    /\ call.ret[1] = 150
    /\ call.ret[2] = "neutral"

(* C4: every triple analyze_sentiment returns has its polarity in [-1.0, 1.0], *)
(* for any base polarity in [-1.0, 1.0] and any number of list words present.  *)
C4_PolarityClamped == Returned => (call.ret[1] >= -1000 /\ call.ret[1] <= 1000)

\* the text with every word of both lists: the adjustment leaves the range
C4_Witness ==
    /\ call.op = "analyze_sentiment"
    /\ call.how = "computed"
    /\ call.text = AllListWords
    /\ call.adjusted < -1000
    /\ call.ret[1] = -1000

C6_PureMemoization ==
    Returned => call.ret = analyze_sentiment(variant, <<>>, call.text, call.est).ret

(* C7: before the clamp, the polarity is the estimator's base polarity         *)
(* + 0.2 * pos_hits - 0.3 * neg_hits, the hits being the numbers of words of   *)
(* the variant's two lists that occur in the lower-cased text, a word counted  *)
(* once however often it occurs.                                               *)
WordsPresent(words, text) ==
    Cardinality({words[i] : i \in {j \in 1..Len(words) : Occurs(words[j], lower(text))}})

C7_AdjustmentFormula ==
    (call.op = "analyze_sentiment" /\ call.how = "computed") =>
        call.adjusted =
            call.est.polarity
            + 200 * WordsPresent(IF variant = "web_scraper" THEN Demo_disaster_positive
                                 ELSE Live_disaster_positive, call.text)
            - 300 * WordsPresent(IF variant = "web_scraper" THEN Demo_disaster_negative
                                 ELSE Live_disaster_negative, call.text)

\* a negative word that occurs twice in the text is counted once
C7_Witness ==
    /\ call.op = "analyze_sentiment"
    /\ call.how = "computed"
    /\ call.text = <<"c","r","i","s","i","s",","," ","C","R","I","S","I","S","!">>
    /\ call.adjusted = call.est.polarity - 300

ClaimedConfidence(polarity) ==
    IF variant = "web_scraper" THEN Min(Abs(polarity) + 200, 1000)
    ELSE Min((Abs(polarity) * 3) \div 2, 1000)

(* C8 as stated: in every triple analyze_sentiment returns, the confidence is  *)
(* the variant's formula applied to the returned polarity, so it lies in       *)
(* [0.0, 1.0], and in web_scraper.py it is at least 0.2.                       *)
C8_Original ==
    Returned =>
        /\ call.ret[3] = ClaimedConfidence(call.ret[1])
        /\ call.ret[3] >= 0 /\ call.ret[3] <= 1000
        /\ variant = "web_scraper" => call.ret[3] >= 200

(* C8 amended: in every triple analyze_sentiment returns other than the        *)
(* estimator-failure fallback of web_scraper.py, the confidence is the         *)
(* variant's formula applied to the returned polarity; the fallback carries    *)
(* the fixed confidence 0.6; every confidence lies in [0.0, 1.0] and in        *)
(* web_scraper.py is at least 0.2.                                             *)
C8_Amended ==
    Returned =>
        /\ call.how # "fallback" => call.ret[3] = ClaimedConfidence(call.ret[1])
        /\ call.how = "fallback" => call.ret[3] = 600
        /\ call.ret[3] >= 0 /\ call.ret[3] <= 1000
        /\ variant = "web_scraper" => call.ret[3] >= 200

\* web_scraper.py, polarity exactly 0: confidence 0.2
C8_Witness ==
    /\ variant = "web_scraper"
    /\ call.op = "analyze_sentiment"
    /\ call.how = "computed"
    /\ call.ret[1] = 0
    /\ call.ret[3] = 200

(* C9: when the estimator raises inside analyze_sentiment of web_scraper.py,   *)
(* the call does not propagate the exception: it returns the fallback triple   *)
(* (-0.2, negative, 0.6).                                                      *)
C9_FallbackOnFailure ==
    (variant = "web_scraper" /\ call.op = "analyze_sentiment"
        /\ call.invoked /\ ~call.est.ok) =>
        (call.how # "raised" /\ call.ret = <<-200, "negative", 600>>)

\* the estimator was invoked and raised
C9_Witness ==
    /\ variant = "web_scraper"
    /\ call.op = "analyze_sentiment"
    /\ call.invoked
    /\ ~call.est.ok
    /\ call.how = "fallback"

\* a call of analyze_sentiment of web_scraper.py has just ended
DemoCallEnds == variant = "web_scraper" /\ ncalls' = ncalls + 1

(* C26: when the estimator raises inside analyze_sentiment of web_scraper.py,  *)
(* the call returns the fallback triple and leaves the sentiment cache exactly *)
(* as it was, with nothing stored under the text's normalized key; a later     *)
(* call on a key for which every earlier call ended so invokes the estimator   *)
(* again instead of returning the fallback from the cache.                     *)
C26_FallbackNotStored ==
    [][DemoCallEnds =>
          /\ (call'.invoked /\ ~call'.est.ok) =>
                 /\ call'.ret = <<-200, "negative", 600>>
                 /\ sentiment_cache' = sentiment_cache
                 /\ text_key(call'.text) \notin DOMAIN sentiment_cache'
          /\ (call'.earlier # {} /\ \A e \in call'.earlier : e.how = "fallback") =>
                 (call'.invoked /\ call'.how # "cached")]_vars

\* a second call on a key whose first call ended with the fallback: the
\* estimator was invoked again, for another text of that key, and answered
C26_Witness ==
    /\ variant = "web_scraper"
    /\ call.op = "analyze_sentiment"
    /\ call.invoked
    /\ call.how = "computed"
    /\ \E e \in call.earlier : e.how = "fallback" /\ e.text # call.text

-----------------------------------------------------------------------------
(* Properties of the live path, under SpecSearch                           *)

MatchesVocabulary(content) ==
    \E k \in 1..Len(Vocabulary) : Occurs(lower(Vocabulary[k]), lower(content))

(* C10: a failure while classifying one raw post drops at most that post:      *)
(* every other raw post of the keyword's batch that matches a keyword, those   *)
(* after the failing one included, is classified and is in the returned list.  *)
(* Stated of the finished search: every post the scraper handed over that      *)
(* matches a keyword, and for whose text the estimator does not raise, has its *)
(* content in the returned list.                                               *)
C10_FailureDropsOnePost ==
    pc.at = "done" =>
        \A b \in 1..Len(scraped) : \A i \in 1..Len(scraped[b]) :
            (MatchesVocabulary(scraped[b][i].content) /\ estimator[scraped[b][i].content].ok)
                => \E n \in 1..Len(unique_tweets) :
                       unique_tweets[n].content = scraped[b][i].content

(* C11: every post the live search returns has a non-empty matched_keywords    *)
(* list; a raw post whose content matches no vocabulary keyword is skipped: it *)
(* is not among the collected posts, its text is never passed to               *)
(* analyze_sentiment, and the cache holds no entry under its normalized text.  *)
C11_UnmatchedSkipped ==
    /\ \A n \in 1..Len(all_tweets) : all_tweets[n].matched_keywords # <<>>
    /\ \A n \in 1..Len(unique_tweets) : unique_tweets[n].matched_keywords # <<>>
    /\ \A b \in 1..Len(scraped) : \A i \in 1..Len(scraped[b]) :
           ~MatchesVocabulary(scraped[b][i].content)
               => /\ scraped[b][i].content \notin scored
                  /\ NormalForm(scraped[b][i].content) \notin DOMAIN sentiment_cache
                  /\ \A n \in 1..Len(all_tweets) :
                         all_tweets[n].content # scraped[b][i].content

\* a finished search that was handed a post matching no keyword next to posts
\* that match, and returned some post
C11_Witness ==
    /\ pc.at = "done"
    /\ unique_tweets # <<>>
    /\ sentiment_cache # <<>>
    /\ \E b \in 1..Len(scraped) : \E i \in 1..Len(scraped[b]) :
           /\ ~MatchesVocabulary(scraped[b][i].content)
           /\ i < Len(scraped[b])
           /\ MatchesVocabulary(scraped[b][i + 1].content)
           /\ scraped[b][i + 1].content \in scored

-----------------------------------------------------------------------------
(* Properties of the demo paths, under SpecDemo                            *)

\* the closed set of category labels
ClosedCategories ==
    {"tsunami", "storms", "flooding", "pollution", "erosion", "currents",
     "climate", "general", "unknown"}

(* C12: every post produced by a path of either variant has a hazard_category  *)
(* of the closed set tsunami, storms, flooding, pollution, erosion, currents,  *)
(* climate, general, unknown; a post kept with no matched keyword carries the  *)
(* zero-match category, unknown or general.                                    *)
C12_ClosedCategorySet ==
    \A n \in 1..Len(tweets) :
        /\ tweets[n].hazard_category \in ClosedCategories
        /\ tweets[n].matched_keywords = <<>>
               => tweets[n].hazard_category \in {"unknown", "general"}

(* C13: every post get_demo_tweets of web_scraper.py produces stores the       *)
(* category that categorize_hazard of that file gives for the post's           *)
(* matched_keywords, so no two produced posts with the same matched_keywords   *)
(* have different categories.                                                  *)
C13_DemoCategoryIsCategorizer ==
    variant = "web_scraper" =>
        /\ \A n \in 1..Len(tweets) :
               tweets[n].hazard_category
                   = Demo_categorize_hazard(tweets[n].matched_keywords)
        /\ \A n, m \in 1..Len(tweets) :
               tweets[n].matched_keywords = tweets[m].matched_keywords
                   => tweets[n].hazard_category = tweets[m].hazard_category

\* get_demo_tweets has returned its 25 posts; two of them carry the same
\* keywords, and one carries a flooding keyword next to an erosion keyword
C13_Witness ==
    /\ variant = "web_scraper"
    /\ pc.at = "done"
    /\ Len(tweets) = 25
    /\ \E n, m \in 1..Len(tweets) :
           n # m /\ tweets[n].matched_keywords = tweets[m].matched_keywords
    /\ \E n \in 1..Len(tweets) :
           /\ tweets[n].matched_keywords = << <<"f","l","o","o","d">>, <<"s","e","a"," ","l","e","v","e","l"," ","r","i","s","e">> >>
           /\ tweets[n].hazard_category = "flooding"

(* C14: for every post produced by either variant, matched_keywords is exactly *)
(* the list of vocabulary terms found in the post's content, each once and in  *)
(* vocabulary order: matched_keywords = find_matching_keywords(content).       *)
C14_KeywordsAreMatches ==
    /\ \A n \in 1..Len(tweets) :
           tweets[n].matched_keywords
               = find_matching_keywords(variant, tweets[n].content)
    /\ \A n \in 1..Len(all_tweets) :
           all_tweets[n].matched_keywords
               = find_matching_keywords(variant, all_tweets[n].content)

-----------------------------------------------------------------------------
(* Properties of the report, under SpecReport                              *)

Reported == report.kind = "report"
Labels == {"positive", "negative", "neutral"}
Distribution == report.summary.sentiment_distribution

(* C16: generate_sentiment_report of an empty list returns the no-data value   *)
(* {'error': 'No tweets to analyze'}; it does not raise, and it evaluates no   *)
(* mean and no min or max selection on its way.                                *)
C16_EmptyInputNoData ==
    (tweets = <<>> /\ report.kind # "none") =>
        /\ report.kind = "no_data"
        /\ report.error = "No tweets to analyze"
        /\ report.evaluated = {}

\* the report of the empty list has been asked for, and returned
C16_Witness == tweets = <<>> /\ report.kind = "no_data"

(* C17: for a non-empty input, the summary's sentiment distribution has an     *)
(* entry for each of the labels positive, negative and neutral, whose count is *)
(* the number of input posts carrying the label, 0 when there is none.         *)
C17_ThreeLabelsPresent ==
    Reported =>
        \A label \in Labels :
            \E e \in 1..Len(Distribution) :
                /\ Distribution[e].key = label
                /\ Distribution[e].count
                       = Cardinality({n \in 1..Len(tweets) :
                                         tweets[n].sentiment_label = label})

\* the sum of total_tweets over the entries of a per-category breakdown
RECURSIVE SumTotals(_, _)
SumTotals(breakdown, categories) ==
    IF categories = {} THEN 0
    ELSE LET c == CHOOSE x \in categories : TRUE
         IN  breakdown[c].total_tweets + SumTotals(breakdown, categories \ {c})

RECURSIVE SumCounts(_)
SumCounts(items) ==
    IF items = <<>> THEN 0 ELSE Head(items).count + SumCounts(Tail(items))

(* C18: for a non-empty input, the counts of the summary's sentiment           *)
(* distribution sum to the number of posts, the total_tweets of the            *)
(* per-category breakdown sum to the number of posts, and the breakdown has an *)
(* entry for exactly the categories that occur in the input.                   *)
C18_CountsSumToTotal ==
    Reported =>
        /\ report.summary.total_tweets = Len(tweets)
        /\ SumCounts(Distribution) = Len(tweets)
        /\ DOMAIN report.by_hazard_category
               = {tweets[n].hazard_category : n \in 1..Len(tweets)}
        /\ SumTotals(report.by_hazard_category, DOMAIN report.by_hazard_category)
               = Len(tweets)

\* a report of three posts of two categories and two labels
C18_Witness ==
    /\ Reported
    /\ Len(tweets) = 3
    /\ Cardinality(DOMAIN report.by_hazard_category) = 2
    /\ Len(Distribution) = 2
    /\ \E c \in DOMAIN report.by_hazard_category :
           report.by_hazard_category[c].total_tweets = 2

\* post i is the first post of the input whose key is extreme
FirstLowestScore(i) ==
    /\ \A j \in 1..Len(tweets) : tweets[j].sentiment_score >= tweets[i].sentiment_score
    /\ \A j \in 1..(i - 1) : tweets[j].sentiment_score > tweets[i].sentiment_score
FirstHighestScore(i) ==
    /\ \A j \in 1..Len(tweets) : tweets[j].sentiment_score <= tweets[i].sentiment_score
    /\ \A j \in 1..(i - 1) : tweets[j].sentiment_score < tweets[i].sentiment_score
FirstMostEngaging(i) ==
    /\ \A j \in 1..Len(tweets) :
           tweets[j].likes + tweets[j].retweets <= tweets[i].likes + tweets[i].retweets
    /\ \A j \in 1..(i - 1) :
           tweets[j].likes + tweets[j].retweets < tweets[i].likes + tweets[i].retweets

\* the notable record is that of post i, in either file's rendering
NotableIs(notable, i) ==
    /\ notable.handle = tweets[i].handle
    /\ notable.content = tweets[i].content
    /\ variant = "web_scarper" => notable = tweets[i]
    /\ variant = "web_scraper" => notable.category = tweets[i].hazard_category

(* C19: most_negative is a post of minimum sentiment_score, most_positive a    *)
(* post of maximum sentiment_score, most_engaging a post of maximum likes +    *)
(* retweets, replies not counted; among posts that tie on the key, the first   *)
(* in input order is selected.                                                 *)
C19_NotableFirstOnTies ==
    Reported =>
        /\ \E i \in 1..Len(tweets) :
               FirstLowestScore(i) /\ NotableIs(report.notable_tweets.most_negative, i)
        /\ \E i \in 1..Len(tweets) :
               FirstHighestScore(i) /\ NotableIs(report.notable_tweets.most_positive, i)
        /\ \E i \in 1..Len(tweets) :
               FirstMostEngaging(i) /\ NotableIs(report.notable_tweets.most_engaging, i)

\* a report of three different posts: the first two tie on the lowest score, all
\* three tie on likes + retweets, and the last has the most replies
C19_Witness ==
    /\ Reported
    /\ Len(tweets) = 3
    /\ tweets[1].handle # tweets[2].handle
    /\ tweets[1].sentiment_score = tweets[2].sentiment_score
    /\ tweets[3].sentiment_score > tweets[1].sentiment_score
    /\ \A j \in 2..3 :
           tweets[j].likes + tweets[j].retweets = tweets[1].likes + tweets[1].retweets
    /\ tweets[3].replies > tweets[1].replies
    /\ report.notable_tweets.most_negative.handle = tweets[1].handle
    /\ report.notable_tweets.most_engaging.handle = tweets[1].handle

\* the places (post, index in its matched_keywords) where keyword kw stands
Places(kw) ==
    UNION {{<<n, i>> : i \in {j \in 1..Len(tweets[n].matched_keywords) :
                                  tweets[n].matched_keywords[j] = kw}} :
              n \in 1..Len(tweets)}
Occurring ==
    UNION {{tweets[n].matched_keywords[i] : i \in 1..Len(tweets[n].matched_keywords)} :
              n \in 1..Len(tweets)}
\* place p comes before place q when the posts are scanned in input order
Before(p, q) == p[1] < q[1] \/ (p[1] = q[1] /\ p[2] < q[2])
FirstPlace(kw) == CHOOSE p \in Places(kw) : \A q \in Places(kw) : p = q \/ Before(p, q)
\* keyword a ranks before keyword b: more frequent, or as frequent and met first
RanksBefore(a, b) ==
    \/ Cardinality(Places(a)) > Cardinality(Places(b))
    \/ /\ Cardinality(Places(a)) = Cardinality(Places(b))
       /\ Before(FirstPlace(a), FirstPlace(b))
TopKeys == {report.top_keywords[e].key : e \in 1..Len(report.top_keywords)}

(* C20: top_keywords holds at most 15 keywords, the most frequent matched       *)
(* keywords counted over all posts, in non-increasing order of count; among     *)
(* keywords of equal count the one met first when scanning the posts in input   *)
(* order, and each post's matched_keywords in order, ranks first, also for the  *)
(* choice of the keywords that make the cut.  Ranking before is transitive, so  *)
(* it is stated of each entry and the next, and of the last entry and every     *)
(* keyword left out.                                                            *)
C20_TopKeywordsStable ==
    Reported =>
        /\ Len(report.top_keywords) <= 15
        /\ Len(report.top_keywords) = Min(15, Cardinality(Occurring))
        /\ \A e \in 1..Len(report.top_keywords) :
               /\ report.top_keywords[e].key \in Occurring
               /\ report.top_keywords[e].count
                      = Cardinality(Places(report.top_keywords[e].key))
        /\ \A e \in 1..(Len(report.top_keywords) - 1) :
               RanksBefore(report.top_keywords[e].key, report.top_keywords[e + 1].key)
        /\ \A kw \in Occurring \ TopKeys :
               RanksBefore(report.top_keywords[Len(report.top_keywords)].key, kw)

\* a report of posts with more than 15 keywords between them: the keyword met
\* first is not the first of the vocabulary, it ties with later ones for the
\* first rank, and the last keyword kept ties with a keyword left out
C20_Witness ==
    /\ Reported
    /\ Cardinality(Occurring) > 15
    /\ Len(report.top_keywords) = 15
    /\ report.top_keywords[1].key = <<"c","o","r","a","l"," ","b","l","e","a","c","h","i","n","g">>
    /\ report.top_keywords[1].count = report.top_keywords[2].count
    /\ VocabularyIndex(report.top_keywords[2].key)
           < VocabularyIndex(report.top_keywords[1].key)
    /\ \E kw \in Occurring \ TopKeys :
           Cardinality(Places(kw)) = report.top_keywords[15].count

-----------------------------------------------------------------------------
(* More properties of the live path, under SpecSearch                      *)

(* C22: the deduplication at the end of search_ocean_hazards returns posts of  *)
(* pairwise distinct content, one for every distinct content collected, and    *)
(* for each content it is the first-encountered post record that is kept,      *)
(* every later post of an already seen content being dropped.                  *)
C22_DedupKeepsFirst ==
    pc.at = "done" =>
        /\ \A n, m \in 1..Len(unique_tweets) :
               unique_tweets[n].content = unique_tweets[m].content => n = m
        /\ {unique_tweets[n].content : n \in 1..Len(unique_tweets)}
               = {all_tweets[i].content : i \in 1..Len(all_tweets)}
        /\ \A n \in 1..Len(unique_tweets) :
               \E i \in 1..Len(all_tweets) :
                   /\ all_tweets[i] = unique_tweets[n]
                   /\ \A j \in 1..(i - 1) : all_tweets[j].content # all_tweets[i].content

-----------------------------------------------------------------------------
(* Properties of concurrent calls, under SpecConcurrent                     *)

\* thread b looked the key up and missed it while thread a had missed the same
\* key and not stored yet, and both calls have ended
BothMissed(a, b) ==
    /\ a # b
    /\ threads[a].at = "done"
    /\ threads[b].at = "done"
    /\ a \in threads[b].pending
    /\ threads[b].how # "cached"

(* C23: when two calls of analyze_sentiment on one analyzer, for texts of one  *)
(* normalized key, both miss the key before either stores, both return the     *)
(* same triple, the cache ends with that triple under the key, and every call  *)
(* on the key that starts after both have ended returns that triple too.       *)
C23_RacingCallsAgree ==
    \A a, b \in Threads :
        BothMissed(a, b) =>
            LET key == text_key(threads[a].text)
            IN  /\ threads[a].how # "raised"
                /\ threads[b].how # "raised"
                /\ threads[a].ret = threads[b].ret
                /\ key \in DOMAIN sentiment_cache
                /\ sentiment_cache[key] = threads[a].ret
                /\ \A c \in Threads :
                       ( /\ threads[c].at = "done"
                         /\ {a, b} \subseteq threads[c].finished
                         /\ text_key(threads[c].text) = key )
                       => threads[c].ret = threads[a].ret

-----------------------------------------------------------------------------
(* More properties of the matcher and the categorizer, under SpecClassify   *)

\* where the category lists hold a keyword: category index and place in its list
ListedAt(kw) ==
    UNION { {<<c, j>> : j \in {i \in 1..Len(hazard_categories[c].keywords) :
                                    hazard_categories[c].keywords[i] = kw}} :
            c \in 1..Len(hazard_categories) }

\* the keywords are what the matcher returns for the text of the call
FromMatcher == call.keywords = find_matching_keywords(variant, call.text)

(* C24: every entry of KEYWORDS + EXTENDED_KEYWORDS stands in the keyword list *)
(* of exactly one hazard category; so categorize_hazard of either variant, on  *)
(* a non-empty result of find_matching_keywords, returns through a category    *)
(* hit and never through its default return, and on a single vocabulary        *)
(* keyword it returns the category whose list holds the keyword.               *)
C24_VocabularyCovered ==
    /\ \A k \in 1..Len(Vocabulary) : Cardinality(ListedAt(Vocabulary[k])) = 1
    /\ call.op = "categorize_hazard" =>
           /\ (call.keywords # <<>> /\ FromMatcher) => call.how = "hit"
           /\ \A k \in 1..Len(Vocabulary) :
                  call.keywords = <<Vocabulary[k]>> =>
                      /\ call.how = "hit"
                      /\ \A p \in ListedAt(Vocabulary[k]) :
                             call.ret = hazard_categories[p[1]].category

\* the matcher found one keyword in a text, and the categorizer was given its result
C24_Witness ==
    /\ call.op = "categorize_hazard"
    /\ call.text = <<"b","e","a","c","h"," ","e","r","o","s","i","o","n"," ">>
    /\ call.keywords = << <<"b","e","a","c","h"," ","e","r","o","s","i","o","n">> >>
    /\ FromMatcher
    /\ call.how = "hit"
    /\ call.ret = "erosion"

\* every keyword of the list is an entry of the vocabulary, as written there
VocabularyOnly(keywords) ==
    \A i \in 1..Len(keywords) : \E k \in 1..Len(Vocabulary) : keywords[i] = Vocabulary[k]

\* the list holds a keyword of the category's list
Holds(category, keywords) ==
    \E i \in 1..Len(keywords) : \E p \in ListedAt(keywords[i]) :
        hazard_categories[p[1]].category = category

\* what each file's categorize_hazard returns for the keywords of the call: the
\* return of the call for the file the analyzer is of
ReturnOf(v) ==
    IF variant = v THEN call.ret ELSE categorize_hazard(v, call.keywords)

(* C25: on a non-empty list of vocabulary keywords that does not hold both an  *)
(* erosion keyword and a pollution keyword, categorize_hazard of web_scraper.py *)
(* and of web_scarper.py return the same category; where they differ, the list *)
(* holds both (pollution from web_scraper.py, erosion from web_scarper.py) or   *)
(* is empty, and on the empty list they return unknown and general.            *)
C25_VariantsAgree ==
    (call.op = "categorize_hazard" /\ VocabularyOnly(call.keywords)) =>
        LET demo == ReturnOf("web_scraper")
            live == ReturnOf("web_scarper")
            both == Holds("erosion", call.keywords) /\ Holds("pollution", call.keywords)
        IN  /\ (call.keywords # <<>> /\ ~both) => demo = live
            /\ call.keywords = <<>> => (demo = "unknown" /\ live = "general")
            /\ (call.keywords # <<>> /\ demo # live)
                   => (both /\ demo = "pollution" /\ live = "erosion")

\* web_scarper.py returned erosion for a list on which web_scraper.py returns pollution
C25_Witness ==
    /\ variant = "web_scarper"
    /\ call.op = "categorize_hazard"
    /\ call.keywords = << <<"o","i","l"," ","s","p","i","l","l">>, <<"c","o","a","s","t","a","l"," ","e","r","o","s","i","o","n">>, <<"c","o","r","a","l"," ","b","l","e","a","c","h","i","n","g">> >>
    /\ call.ret = "erosion"
    /\ ReturnOf("web_scraper") = "pollution"

====
